---------------------------- MODULE Spec2Model ----------------------------
(***************************************************************************)
(* A model of polygo: the polynomial arithmetic kernel (Poly and the older *)
(* mutating RealPolynomial API), the Sturm chain with its sign-variation   *)
(* root count, and the Solver (isolation by bisection, refinement by       *)
(* bisection or Newton-Raphson with random restart).                       *)
(*                                                                         *)
(* float64 values are modelled as exact rationals <<n, d>> in lowest terms *)
(* with d > 0: rounding, overflow, Inf and NaN are outside the model.      *)
(***************************************************************************)
EXTENDS Integers, Sequences, FiniteSets, TLC

(***************************************************************************)
(* Bounds of the model.                                                    *)
(***************************************************************************)
\* Largest number of coefficients of an input polynomial of the arithmetic kernel.
MaxLen == 2
\* Largest number of arithmetic operations in one behaviour.
MaxOps == 2
\* Largest number of linear factors of a polynomial handed to the Solver.
MaxRoots == 3
\* Depth at which the recursion of IsolateRootsWithin exhausts the stack.
MaxDepth == 6
\* Largest value given to SetNewtonSearchIterations.
MaxNewton == 1
\* Largest number of random restarts of one Newton-Raphson refinement.
MaxRestarts == 2
\* Largest number of queries put to one Solver in one behaviour.
MaxQueries == 2
\* Passes of the loop of solve_bisect after which the model stops following it.
MaxBisect == 6

(***************************************************************************)
(* Rational arithmetic standing for float64.                               *)
(***************************************************************************)
Abs(n) == IF n < 0 THEN -n ELSE n

RECURSIVE GCD(_, _)
GCD(m, n) == IF n = 0 THEN m ELSE GCD(n, m % n)

Q(n, d) ==
  LET g == GCD(Abs(n), Abs(d))
      s == IF d < 0 THEN -1 ELSE 1
  IN  <<s * (n \div g), s * (d \div g)>>

QI(n) == <<n, 1>>
QZero == <<0, 1>>
QOne == <<1, 1>>

QAdd(a, b) ==
  LET g == GCD(a[2], b[2])
  IN  Q(a[1] * (b[2] \div g) + b[1] * (a[2] \div g), (a[2] \div g) * b[2])
QNeg(a) == <<-a[1], a[2]>>
QSub(a, b) == QAdd(a, QNeg(b))
QMul(a, b) ==
  LET g1 == GCD(Abs(a[1]), b[2])
      g2 == GCD(Abs(b[1]), a[2])
  IN  IF a[1] = 0 \/ b[1] = 0 THEN QZero
      ELSE <<(a[1] \div g1) * (b[1] \div g2), (a[2] \div g2) * (b[2] \div g1)>>
\* Division by zero is guarded by every caller in the model.
QDiv(a, b) == QMul(a, IF b[1] < 0 THEN <<-b[2], -b[1]>> ELSE <<b[2], b[1]>>)
QLt(a, b) == QSub(a, b)[1] < 0
QLe(a, b) == QSub(a, b)[1] <= 0
QHalf == <<1, 2>>


(***************************************************************************)
(* Slice helpers of the Poly API.                                          *)
(***************************************************************************)
RECURSIVE removeTrailingZeroes(_)
removeTrailingZeroes(s) ==
  IF Len(s) = 0 THEN s
  ELSE IF s[Len(s)] = QZero /\ Len(s) > 1
       THEN removeTrailingZeroes(SubSeq(s, 1, Len(s) - 1))
       ELSE s

reverse(s) == [i \in 1..Len(s) |-> s[Len(s) - i + 1]]

expand(s, n) ==
  IF n <= Len(s) THEN s
  ELSE [i \in 1..n |-> IF i <= Len(s) THEN s[i] ELSE QZero]

(***************************************************************************)
(* Poly: coef[i] is the coefficient of x^(i-1); len and deg are set once,  *)
(* by the constructor.                                                     *)
(***************************************************************************)
newPolyNoReverse(coefficients) ==
  LET c == removeTrailingZeroes(coefficients)
  IN  [coef |-> c, len |-> Len(c), deg |-> Len(c) - 1]

\* NewPoly panics on an empty slice; NewPolyPanics is that condition.
NewPolyPanics(coefficients) == Len(coefficients) = 0

NewPoly(coefficients) ==
  LET c == removeTrailingZeroes(reverse(coefficients))
  IN  [coef |-> c, len |-> Len(c), deg |-> Len(c) - 1]

NewPolyConst(a) == newPolyNoReverse(<<a>>)
NewPolyZero == NewPolyConst(QZero)

IsConstant(p) == p.deg = 0
IsZero(p) == p.deg = 0 /\ p.coef[1] = QZero

\* Equal returns false at the first index where the coefficients are equal.
Equal(p, q) ==
  IF p.deg # q.deg THEN FALSE
  ELSE ~\E i \in 1..p.len : p.coef[i] = q.coef[i]

\* Horner's scheme.
RECURSIVE Horner(_, _, _, _)
Horner(coef, x, i, out) ==
  IF i < 1 THEN out ELSE Horner(coef, x, i - 1, QAdd(QMul(out, x), coef[i]))

At(p, x) == Horner(p.coef, x, p.deg, p.coef[p.deg + 1])

MaxInt(m, n) == IF m > n THEN m ELSE n

Add(p, q) ==
  LET max == MaxInt(p.len, q.len)
      pe == expand(p.coef, max)
      qe == expand(q.coef, max)
  IN  newPolyNoReverse([i \in 1..max |-> QAdd(pe[i], qe[i])])

Sub(p, q) ==
  LET max == MaxInt(p.len, q.len)
      pe == expand(p.coef, max)
      qe == expand(q.coef, max)
  IN  newPolyNoReverse([i \in 1..max |-> QSub(pe[i], qe[i])])

MulScalar(p, s) ==
  IF s = QZero THEN NewPoly(<<QZero>>)
  ELSE newPolyNoReverse([i \in 1..p.len |-> QMul(s, p.coef[i])])

RECURSIVE QSum(_, _, _)
\* The sum of f[i] over i in lo..hi.
QSum(f, lo, hi) == IF lo > hi THEN QZero ELSE QAdd(f[lo], QSum(f, lo + 1, hi))

Mul(p, q) ==
  LET n == p.deg + q.deg + 1
      term(k) == [i \in 1..p.len |->
                    IF k - i + 1 >= 1 /\ k - i + 1 <= q.len
                    THEN QMul(p.coef[i], q.coef[k - i + 1]) ELSE QZero]
  IN  newPolyNoReverse([k \in 1..n |-> QSum(term(k), 1, p.len)])

\* Div panics when q is the zero polynomial; DivPanics is that condition.
DivPanics(p, q) == IsZero(q)

RECURSIVE synthetic(_, _, _, _, _)
\* The loop of Div over i (1-based here); quoRemCoef is updated in place.
synthetic(quoRemCoef, qRev, qlen, i, sep) ==
  IF i > sep THEN quoRemCoef
  ELSE LET c == QDiv(quoRemCoef[i], qRev[1])
           next == [k \in 1..Len(quoRemCoef) |->
                      IF k = i THEN c
                      ELSE IF c # QZero /\ k > i /\ k <= i + qlen - 1
                           THEN QAdd(quoRemCoef[k], QMul(QNeg(qRev[k - i + 1]), c))
                           ELSE quoRemCoef[k]]
       IN  synthetic(next, qRev, qlen, i + 1, sep)

\* Div returns <<quotient, remainder>>.
Div(p, q) ==
  IF IsZero(p) THEN <<NewPolyZero, NewPolyZero>>
  ELSE IF p.deg < q.deg THEN <<NewPolyZero, p>>
  ELSE LET sep == p.len - q.len + 1
           quoRemCoef == synthetic(reverse(p.coef), reverse(q.coef), q.len, 1, sep)
       IN  <<newPolyNoReverse(reverse(SubSeq(quoRemCoef, 1, sep))),
             newPolyNoReverse(reverse(SubSeq(quoRemCoef, sep + 1, p.len)))>>

Derivative(p) ==
  IF p.deg = 0 THEN NewPoly(<<QZero>>)
  ELSE newPolyNoReverse([i \in 1..p.deg |-> QMul(p.coef[i + 1], QI(i))])

\* NewPolyFactored panics for empty r (the model never passes one).
RECURSIVE factoredProd(_, _, _)
factoredProd(prod, r, i) ==
  IF i > Len(r) THEN prod
  ELSE factoredProd(Mul(prod, newPolyNoReverse(<<QNeg(r[i]), QOne>>)), r, i + 1)

NewPolyFactored(a, r) ==
  IF a = QZero THEN NewPolyZero
  ELSE MulScalar(factoredProd(newPolyNoReverse(<<QNeg(r[1]), QOne>>), r, 2), a)


(***************************************************************************)
(* RealPolynomial: the older API, whose methods overwrite their receiver.  *)
(* An object is its coeffs slice; h maps the caller's objects to theirs.   *)
(***************************************************************************)
\* stripTailingZeroes reads s[len(s)-1] first: it panics on an empty slice.
RECURSIVE stripTailingZeroes(_)
stripTailingZeroes(s) ==
  IF s[Len(s)] = QZero /\ Len(s) > 1
  THEN stripTailingZeroes(SubSeq(s, 1, Len(s) - 1))
  ELSE s

NewRealPolynomialFails(coeffs) == Len(coeffs) = 0
NewRealPolynomial(coeffs) == stripTailingZeroes(coeffs)

NumCoeffs(c) == Len(c)
Degree(c) == Len(c) - 1
LeadCoeff(c) == c[Len(c)]
RealIsZero(c) == Degree(c) = 0 /\ c[1] = QZero

RealEqual(c1, c2) ==
  IF NumCoeffs(c1) # NumCoeffs(c2) THEN FALSE
  ELSE ~\E i \in 1..NumCoeffs(c1) : c1[i] # c2[i]

\* rp1.Add(rp2) with rp1 = h[i], rp2 = h[j]; the statements run in order, so
\* that i = j (one object as both operands) is covered.
RealAdd(h, i, j) ==
  LET maxNumCoeffs == MaxInt(NumCoeffs(h[i]), NumCoeffs(h[j]))
      h1 == IF NumCoeffs(h[i]) >= NumCoeffs(h[j])
            THEN [h EXCEPT ![j] = expand(h[j], maxNumCoeffs)]
            ELSE [h EXCEPT ![i] = expand(h[i], maxNumCoeffs)]
      sumCoeffs == [k \in 1..maxNumCoeffs |-> QAdd(h1[i][k], h1[j][k])]
      h2 == [h1 EXCEPT ![i] = stripTailingZeroes(sumCoeffs)]
  IN  [h2 EXCEPT ![j] = stripTailingZeroes(h2[j])]

RealSub(h, i, j) ==
  LET maxNumCoeffs == MaxInt(NumCoeffs(h[i]), NumCoeffs(h[j]))
      h1 == IF NumCoeffs(h[i]) > NumCoeffs(h[j])
            THEN [h EXCEPT ![j] = expand(h[j], maxNumCoeffs)]
            ELSE IF NumCoeffs(h[i]) < NumCoeffs(h[j])
                 THEN [h EXCEPT ![i] = expand(h[i], maxNumCoeffs)]
                 ELSE h
      diffCoeffs == [k \in 1..maxNumCoeffs |-> QSub(h1[i][k], h1[j][k])]
      h2 == [h1 EXCEPT ![i] = stripTailingZeroes(diffCoeffs)]
  IN  [h2 EXCEPT ![j] = stripTailingZeroes(h2[j])]

RealMulNaive(h, i, j) ==
  LET n == Degree(h[i]) + Degree(h[j]) + 1
      term(k) == [a \in 1..NumCoeffs(h[i]) |->
                    IF k - a + 1 >= 1 /\ k - a + 1 <= NumCoeffs(h[j])
                    THEN QMul(h[i][a], h[j][k - a + 1]) ELSE QZero]
      prodCoeffs == [k \in 1..n |-> QSum(term(k), 1, NumCoeffs(h[i]))]
  IN  [h EXCEPT ![i] = stripTailingZeroes(prodCoeffs)]

\* MulS scales the receiver's coefficients in place and strips nothing.
MulS(c, s) == [k \in 1..Len(c) |-> QMul(c[k], s)]

RealDerivative(c) ==
  IF Degree(c) = 0 THEN NewRealPolynomial(<<QZero>>)
  ELSE NewRealPolynomial([k \in 1..Len(c) - 1 |-> QMul(c[k + 1], QI(k))])

ShiftRight(c, offset) ==
  NewRealPolynomial([k \in 1..NumCoeffs(c) + offset |->
                       IF k <= offset THEN QZero ELSE c[k - offset]])

\* rem.Sub(d) on two objects of the caller's no one else holds.
SubCoeffs(c, d) == RealSub(<<c, d>>, 1, 2)[1]

\* EuclideanDiv panics on a zero divisor, and make() panics on a negative length.
EuclideanDivPanics(c1, c2) ==
  RealIsZero(c2) \/ Degree(c1) - Degree(c2) + 1 < 0

\* The loop runs while rem.Degree() >= rp2.Degree(); a remainder always keeps
\* one coefficient, so against a divisor of degree 0 the loop never exits.
EuclideanDivHangs(c1, c2) == ~EuclideanDivPanics(c1, c2) /\ Degree(c2) = 0

RECURSIVE euclidLoop(_, _, _)
\* The loop of EuclideanDiv; returns <<quotCoeffs, rem>>.
euclidLoop(quotCoeffs, rem, c2) ==
  IF Degree(rem) >= Degree(c2)
  THEN LET shift == Degree(rem) - Degree(c2)
           d == ShiftRight(c2, shift)
           factor == QDiv(LeadCoeff(rem), LeadCoeff(d))
       IN  euclidLoop([k \in 1..Len(quotCoeffs) |->
                         IF k = shift + 1 THEN factor ELSE quotCoeffs[k]],
                      SubCoeffs(rem, MulS(d, factor)), c2)
  ELSE <<quotCoeffs, rem>>

\* A divisor that is a vector of zeros longer than one is not IsZero(); the
\* first pass of the loop then divides by d.LeadCoeff() = 0, which in float64
\* is Inf or NaN and no panic.
EuclideanDivDividesByZero(c1, c2) ==
  /\ ~EuclideanDivPanics(c1, c2)
  /\ Degree(c1) >= Degree(c2)
  /\ LeadCoeff(ShiftRight(c2, Degree(c1) - Degree(c2))) = QZero

\* EuclideanDiv returns <<the receiver's new coeffs (the quotient), rem>>.
EuclideanDiv(c1, c2) ==
  euclidLoop([k \in 1..Degree(c1) - Degree(c2) + 1 |-> QZero], c1, c2)


(***************************************************************************)
(* State.                                                                  *)
(***************************************************************************)
VARIABLES
  \* the arithmetic kernel
  api,        \* which API the caller of this behaviour uses: "Poly" or "Real"
  x,          \* Poly API: the caller's current polynomial (the last result)
  y,          \* Poly API: the second result of the last Div (the remainder)
  o,          \* Poly API: the caller's other operand
  h,          \* RealPolynomial API: the coeffs of the caller's two objects
  rret,       \* RealPolynomial API: the coeffs of the last object returned anew
  nops,       \* operations done so far
  outcome,    \* how the last call ended: "ok", "panic", "error", "hang" or "nan"
  \* the package-level settings
  globalNewtonIterations,   \* RealPolynomial API: Newton iterations
  epsilon,    \* the error below which approxEqual takes two values as equal
  arg,        \* the last call of a setter: its name, argument and result
  \* the callers that share one Solver
  callers,    \* for each caller: its pc inside cacheSturmChain, its polynomial,
              \* whether it built a chain, and the chain it got
  mutex,      \* the caller that holds the callers' mutex, or 0
  synced,     \* whether the callers guard their calls with the mutex
  \* the Solver
  sp,         \* the polynomial of the query
  rts,        \* the real roots sp was built from (NewPolyFactored's r)
  sa, sb,     \* the interval of the query
  searcher,   \* Solver.searcher
  bisectPrecision,
  newtonIterations,
  pc,         \* where the query stands
  call,       \* the method the caller invoked
  chainCache, \* Solver.chainCache: a set of entries [key, chain]
  cnt,        \* the value CountRootsWithin returned
  stack,      \* pending calls of IsolateRootsWithin: <<a, b, depth>>, top first
  partition,  \* the intervals isolated so far, left to right
  roots,      \* the roots appended so far
  idx,        \* the index in partition of the interval being refined
  left, right, mid,   \* the locals of solve_bisect
  passes,     \* passes of the loop of solve_bisect made for the current interval
  root,       \* the local of solve_random_sample_newton
  iter,       \* the inner loop counter i of solve_random_sample_newton
  restarts    \* random starts drawn for the current interval

globalVars == <<globalNewtonIterations, epsilon, arg>>
raceVars == <<callers, mutex, synced>>
kernelVars == <<api, x, y, o, h, rret, nops, globalVars, raceVars>>
solverVars == <<sp, rts, sa, sb, searcher, bisectPrecision, newtonIterations, pc,
                call, chainCache, cnt, stack, partition, roots, idx, left, right, mid, passes,
                root,
                iter, restarts>>
vars == <<kernelVars, outcome, solverVars>>

(***************************************************************************)
(* Inputs.                                                                 *)
(***************************************************************************)
CoefVals == {QI(-1), QZero, QI(2)}
Scalars == {QI(-1), QZero, QI(2)}

\* The coefficient slices a caller passes to a constructor.
CoefSlices == UNION {[1..n -> CoefVals] : n \in 1..MaxLen}

\* The state of the variables a specification does not use.
\* The package-level settings as the package initialises them.
DefaultGlobalNewtonIterations == 25
DefaultEpsilon == <<1, 100000>>
\* No setter has been called yet.
NoCall == [name |-> "none", v |-> QZero, res |-> "ok"]

\* No caller besides the one of the behaviour.
RaceIdle == callers = <<>> /\ mutex = 0 /\ synced = FALSE

DefaultGlobals ==
  /\ globalNewtonIterations = DefaultGlobalNewtonIterations
  /\ epsilon = DefaultEpsilon
  /\ arg = NoCall

KernelIdle ==
  /\ DefaultGlobals
  /\ api = "none"
  /\ x = NewPolyZero
  /\ y = NewPolyZero
  /\ o = NewPolyZero
  /\ h = <<<<QZero>>, <<QZero>>>>
  /\ rret = <<QZero>>
  /\ nops = 0

SolverIdle ==
  /\ sp = NewPolyZero
  /\ rts = <<>>
  /\ sa = QZero
  /\ sb = QZero
  /\ searcher = "ALG_SEARCH_BISECT"
  /\ bisectPrecision = QOne
  /\ newtonIterations = 0
  /\ pc = "idle"
  /\ call = "none"
  /\ chainCache = {}
  /\ cnt = 0
  /\ stack = <<>>
  /\ partition = <<>>
  /\ roots = <<>>
  /\ idx = 0
  /\ left = QZero
  /\ right = QZero
  /\ mid = QZero
  /\ passes = 0
  /\ root = QZero
  /\ iter = 0
  /\ restarts = 0

(***************************************************************************)
(* The arithmetic kernel as a state machine: a caller holding two          *)
(* polynomials applies one operation after another.                        *)
(***************************************************************************)
InitKernel ==
  /\ api \in {"Poly", "Real"}
  /\ \E c1 \in CoefSlices, c2 \in CoefSlices :
       /\ x = NewPoly(c1)
       /\ o = NewPoly(c2)
       /\ h = <<NewRealPolynomial(reverse(c1)), NewRealPolynomial(reverse(c2))>>
  /\ y = NewPolyZero
  /\ rret = <<QZero>>
  /\ nops = 0
  /\ outcome = "ok"
  /\ DefaultGlobals
  /\ RaceIdle
  /\ SolverIdle

\* What every kernel operation does besides its own effect.
KernelStep(who) ==
  /\ api = who
  /\ outcome \notin {"hang", "nan"}
  /\ nops < MaxOps
  /\ nops' = nops + 1
  /\ UNCHANGED <<api, globalVars, raceVars, solverVars>>

DoNewPoly ==
  /\ KernelStep("Poly")
  /\ \E c \in CoefSlices \cup {<<>>} :
       IF NewPolyPanics(c)
       THEN outcome' = "panic" /\ UNCHANGED <<x, y, o>>
       ELSE outcome' = "ok" /\ o' = NewPoly(c) /\ UNCHANGED <<x, y>>
  /\ UNCHANGED <<h, rret>>

DoAdd ==
  /\ KernelStep("Poly")
  /\ x' = Add(x, o)
  /\ outcome' = "ok"
  /\ UNCHANGED <<y, o, h, rret>>

DoSub ==
  /\ KernelStep("Poly")
  /\ x' = Sub(x, o)
  /\ outcome' = "ok"
  /\ UNCHANGED <<y, o, h, rret>>

DoMulScalar ==
  /\ KernelStep("Poly")
  /\ \E s \in Scalars : x' = MulScalar(x, s)
  /\ outcome' = "ok"
  /\ UNCHANGED <<y, o, h, rret>>

DoMul ==
  /\ KernelStep("Poly")
  /\ x' = Mul(x, o)
  /\ outcome' = "ok"
  /\ UNCHANGED <<y, o, h, rret>>

DoDiv ==
  /\ KernelStep("Poly")
  /\ IF DivPanics(x, o)
     THEN outcome' = "panic" /\ UNCHANGED <<x, y>>
     ELSE outcome' = "ok" /\ x' = Div(x, o)[1] /\ y' = Div(x, o)[2]
  /\ UNCHANGED <<o, h, rret>>

DoDerivative ==
  /\ KernelStep("Poly")
  /\ x' = Derivative(x)
  /\ outcome' = "ok"
  /\ UNCHANGED <<y, o, h, rret>>


\* The RealPolynomial methods index their operands' coeffs: the caller of the
\* model passes objects that hold at least one coefficient and, to a division,
\* a divisor whose leading coefficient is not 0, or one whose coefficients
\* are all 0.
Usable(c) == Len(c) >= 1

DoNewRealPolynomial ==
  /\ KernelStep("Real")
  /\ \E c \in CoefSlices \cup {<<>>} :
       IF NewRealPolynomialFails(c)
       THEN outcome' = "error" /\ UNCHANGED <<h, rret>>
       ELSE outcome' = "ok" /\ rret' = NewRealPolynomial(c) /\ UNCHANGED h
  /\ UNCHANGED <<x, y, o>>

DoRealAdd ==
  /\ KernelStep("Real")
  /\ \E i \in 1..2, j \in 1..2 :
       /\ Usable(h[i]) /\ Usable(h[j])
       /\ h' = RealAdd(h, i, j)
  /\ outcome' = "ok"
  /\ UNCHANGED <<x, y, o, rret>>

DoRealSub ==
  /\ KernelStep("Real")
  /\ \E i \in 1..2, j \in 1..2 :
       /\ Usable(h[i]) /\ Usable(h[j])
       /\ h' = RealSub(h, i, j)
  /\ outcome' = "ok"
  /\ UNCHANGED <<x, y, o, rret>>

DoRealMulNaive ==
  /\ KernelStep("Real")
  /\ \E i \in 1..2, j \in 1..2 :
       /\ Usable(h[i]) /\ Usable(h[j])
       /\ h' = RealMulNaive(h, i, j)
  /\ outcome' = "ok"
  /\ UNCHANGED <<x, y, o, rret>>

DoMulS ==
  /\ KernelStep("Real")
  /\ \E i \in 1..2, s \in Scalars : h' = [h EXCEPT ![i] = MulS(h[i], s)]
  /\ outcome' = "ok"
  /\ UNCHANGED <<x, y, o, rret>>

DoRealDerivative ==
  /\ KernelStep("Real")
  /\ \E i \in 1..2 : Usable(h[i]) /\ rret' = RealDerivative(h[i])
  /\ outcome' = "ok"
  /\ UNCHANGED <<x, y, o, h>>

DoEuclideanDiv ==
  /\ KernelStep("Real")
  /\ \E i \in 1..2, j \in 1..2 :
       /\ Usable(h[i]) /\ Usable(h[j])
       /\ (LeadCoeff(h[j]) # QZero \/ \A k \in 1..Len(h[j]) : h[j][k] = QZero)
       /\ IF EuclideanDivPanics(h[i], h[j])
          THEN outcome' = "panic" /\ UNCHANGED <<h, rret>>
          ELSE IF EuclideanDivDividesByZero(h[i], h[j])
          THEN outcome' = "nan" /\ UNCHANGED <<h, rret>>
          ELSE IF EuclideanDivHangs(h[i], h[j])
               THEN outcome' = "hang" /\ UNCHANGED <<h, rret>>
               ELSE /\ outcome' = "ok"
                    /\ h' = [h EXCEPT ![i] = EuclideanDiv(h[i], h[j])[1]]
                    /\ rret' = EuclideanDiv(h[i], h[j])[2]
  /\ UNCHANGED <<x, y, o>>

NextKernel ==
  \/ DoNewPoly
  \/ DoAdd
  \/ DoSub
  \/ DoMulScalar
  \/ DoMul
  \/ DoDiv
  \/ DoDerivative
  \/ DoNewRealPolynomial
  \/ DoRealAdd
  \/ DoRealSub
  \/ DoRealMulNaive
  \/ DoMulS
  \/ DoRealDerivative
  \/ DoEuclideanDiv

SpecKernel == InitKernel /\ [][NextKernel]_vars


(***************************************************************************)
(* Claims about the arithmetic kernel.                                     *)
(***************************************************************************)
\* A coefficient sequence with no trailing zero, or exactly {0}.  (An empty
\* sequence has no highest coefficient; it is the subject of C2.)
Canonical(c) == Len(c) = 0 \/ c = <<QZero>> \/ c[Len(c)] # QZero

\* The fields of a Poly agree with its coefficient slice.
DegreeIsCountMinusOne(p) == p.len = Len(p.coef) /\ p.deg = p.len - 1

\* C1: after any sequence of polynomial operations every polynomial visible to
\* the caller (the results and, for the RealPolynomial API, the receiver and the
\* argument) has a nonzero highest-degree coefficient unless it is exactly {0},
\* and its degree is its coefficient count minus 1.
C1_CanonicalAfterEveryOperation ==
  /\ Canonical(x.coef) /\ DegreeIsCountMinusOne(x)
  /\ Canonical(y.coef) /\ DegreeIsCountMinusOne(y)
  /\ Canonical(o.coef) /\ DegreeIsCountMinusOne(o)
  /\ Canonical(h[1])
  /\ Canonical(h[2])
  /\ Canonical(rret)

\* C2: every polynomial has at least one coefficient: a constructor rejects the
\* empty slice and returns no polynomial, and every polynomial an operation
\* returns, the quotient and the remainder of a division by a nonzero divisor
\* included, has coefficient count >= 1 (degree >= 0).
C2_AtLeastOneCoefficient ==
  /\ x.len >= 1 /\ x.deg >= 0
  /\ y.len >= 1 /\ y.deg >= 0
  /\ o.len >= 1 /\ o.deg >= 0
  /\ Len(h[1]) >= 1
  /\ Len(h[2]) >= 1
  /\ Len(rret) >= 1


(***************************************************************************)
(* The Sturm chain and its root count.                                     *)
(***************************************************************************)
QAbs(a) == <<Abs(a[1]), a[2]>>
QMin(a, b) == IF QLt(b, a) THEN b ELSE a

\* equalRel divides by min(|a|, |b|): when that is 0 and a # b the quotient is
\* +Inf, which is never <= eps (the parameter epsilon of the code).
equalRel(a, b, eps) ==
  IF a = b THEN TRUE
  ELSE IF QMin(QAbs(a), QAbs(b)) = QZero THEN FALSE
       ELSE QLe(QDiv(QAbs(QSub(a, b)), QMin(QAbs(a), QAbs(b))), eps)

sign(a) ==
  IF equalRel(a, QZero, <<1, 10000>>) THEN 0
  ELSE IF a[1] > 0 THEN 1 ELSE -1

\* A variant of the loop of new_sturmChain that stores the remainder itself.
RECURSIVE sturmLoopKeepsRemainder(_)
sturmLoopKeepsRemainder(chain) ==
  LET i == Len(chain)
  IN  IF IsConstant(chain[i]) THEN chain
      ELSE sturmLoopKeepsRemainder(Append(chain, Div(chain[i - 1], chain[i])[2]))

\* The loop of new_sturmChain: chain[i+1] = -rem(chain[i-1], chain[i]) until
\* chain[i] is constant.
RECURSIVE sturmLoop(_)
sturmLoop(chain) ==
  LET i == Len(chain)
  IN  IF IsConstant(chain[i]) THEN chain
      ELSE sturmLoop(Append(chain, MulScalar(Div(chain[i - 1], chain[i])[2], QI(-1))))

\* A sturmChain is its slice c; its field len is Len(c).
new_sturmChain(p) ==
  IF p.deg = 0 THEN <<p>>
  ELSE sturmLoop(<<p, Derivative(p)>>)

\* The loop of RealPolynomial.sturmChain: i counts from 1 while i < rp.Degree()
\* and breaks at a constant; sturmChain[i] of the code is chain[i + 1] here.
RECURSIVE realSturmLoop(_, _, _)
realSturmLoop(chain, i, c) ==
  IF i < Degree(c) /\ Degree(chain[i + 1]) # 0
  THEN realSturmLoop(Append(chain, MulS(EuclideanDiv(chain[i], chain[i + 1])[2], QI(-1))),
                     i + 1, c)
  ELSE chain

\* The chain of the RealPolynomial API, as the coeffs of its elements.
realSturmChain(c) == realSturmLoop(<<c, RealDerivative(c)>>, 1, c)

\* A variant of the test of the loop of count that also counts a change away
\* from a zero.
signChangedFromAny(prevs, currs) == currs # prevs

\* The test of the loop of count: the sign differs from the previous one and
\* the previous one is not zero.
signChanged(prevs, currs) == currs # prevs /\ prevs # 0

\* The loop of count at one end e of the interval: the counter v after the
\* elements i..len of the chain, prevs being the sign of element i-1.
RECURSIVE countLoop(_, _, _, _, _)
countLoop(chain, e, i, prevs, v) ==
  IF i > Len(chain) THEN v
  ELSE LET currs == sign(At(chain[i], e))
       IN  countLoop(chain, e, i + 1, currs,
                     IF signChanged(prevs, currs) THEN v + 1 ELSE v)

\* va (e = a) or vb (e = b) of count.
signChangesAt(chain, e) == countLoop(chain, e, 2, sign(At(chain[1], e)), 0)

\* A variant of the test of count that rejects the empty interval a = b too.
countPanicsOnEmpty(a, b) == QLe(b, a)

\* count panics for a > b; countPanics is that condition.
countPanics(a, b) == QLt(b, a)

count(chain, a, b) ==
  IF Len(chain) = 1 THEN 0
  ELSE signChangesAt(chain, a) - signChangesAt(chain, b)

\* fmt.Sprintf("%f", c): c rounded to six decimals, ties to even, as its sign
\* and its count of millionths.
formatF(c) ==
  LET n == Abs(c[1])
      d == c[2]
      whole == n \div d
      scaled == (n % d) * 1000000
      q == scaled \div d
      r == scaled % d
      up == 2 * r > d \/ (2 * r = d /\ q % 2 = 1)
  IN  <<c[1] < 0, whole * 1000000 + q + (IF up THEN 1 ELSE 0)>>

\* Poly.id: the string of the formatted coefficients.  The 32-bit FNV hash of
\* the string is taken to be injective on the strings of the model.
id(p) == [i \in 1..p.len |-> formatF(p.coef[i])]

\* The chain Solver.cacheSturmChain returns for p: the cached one under id(p),
\* or a new one.
cacheSturmChain(cache, p) ==
  IF \E e \in cache : e.key = id(p)
  THEN (CHOOSE e \in cache : e.key = id(p)).chain
  ELSE new_sturmChain(p)

\* The variant of the store of cacheSturmChain that builds and stores a chain
\* on every request, replacing the entry under the same key.
cacheStoredAlways(cache, p) ==
  {e \in cache : e.key # id(p)} \cup {[key |-> id(p), chain |-> new_sturmChain(p)]}

\* The cache Solver.cacheSturmChain leaves.
cacheStored(cache, p) ==
  IF \E e \in cache : e.key = id(p) THEN cache
  ELSE cache \cup {[key |-> id(p), chain |-> new_sturmChain(p)]}

CountRootsWithin(cache, p, a, b) == count(cacheSturmChain(cache, p), a, b)

\* countSignVariations of the RealPolynomial API: drop the zeros, then count
\* the adjacent pairs of opposite sign.
countSignVariations(s) ==
  LET filtered == SelectSeq(s, LAMBDA v : v # QZero)
      pairs == {i \in 1..(Len(filtered) - 1) : QMul(filtered[i], filtered[i + 1])[1] < 0}
  IN  Cardinality(pairs)

\* The values of the chain at e.
chainValues(chain, e) == [i \in 1..Len(chain) |-> At(chain[i], e)]

(***************************************************************************)
(* The solvers of the RealPolynomial API; c, c2 are coeffs, n is the value *)
(* of globalNewtonIterations.  A result is a record: err is the error      *)
(* returned, ended is FALSE when the recursion was cut at MaxDepth.        *)
(***************************************************************************)
RealAt(c, v) == Horner(c, v, Len(c) - 1, c[Len(c)])

countRootsWithinWSC(a, b, chain) ==
  countSignVariations([i \in 1..Len(chain) |-> RealAt(chain[i], a)])
    - countSignVariations([i \in 1..Len(chain) |-> RealAt(chain[i], b)])

\* The loop of findRootWithinWSC from pass i on: <<guess, returned in the loop>>.
\* Once rp.At(guess) is 0 and the derivative is not, guess -= 0 / derivAtGuess
\* leaves guess as it is in every remaining pass.
RECURSIVE wscNewton(_, _, _, _, _)
wscNewton(c, deriv, guess, i, n) ==
  IF i >= n THEN <<guess, FALSE>>
  ELSE IF RealAt(deriv, guess) = QZero THEN <<guess, TRUE>>
  ELSE IF RealAt(c, guess) = QZero THEN <<guess, FALSE>>
  ELSE wscNewton(c, deriv,
                 QSub(guess, QDiv(RealAt(c, guess), RealAt(deriv, guess))), i + 1, n)

findRootWithinWSC(c, a, b, chain, n) ==
  LET nRootsWithin == countRootsWithinWSC(a, b, chain)
      g == wscNewton(c, RealDerivative(c), QDiv(QAdd(a, b), QI(2)), 0, n)
  IN  IF nRootsWithin = 0 THEN [root |-> QZero, err |-> TRUE]
      ELSE IF nRootsWithin = -1 THEN [root |-> QZero, err |-> FALSE]
      ELSE IF ~g[2] /\ g[1] = a THEN [root |-> QZero, err |-> TRUE]
      ELSE [root |-> g[1], err |-> FALSE]

RECURSIVE findRootsWithinAcc(_, _, _, _, _, _, _)
findRootsWithinAcc(c, a, b, acc, chain, n, depth) ==
  LET nRoots == countRootsWithinWSC(a, b, chain)
      mp == QDiv(QAdd(a, b), QI(2))
  IN  IF nRoots > 1
      THEN IF depth >= MaxDepth THEN [roots |-> acc, ended |-> FALSE]
           ELSE LET l == findRootsWithinAcc(c, a, mp, acc, chain, n, depth + 1)
                    r == findRootsWithinAcc(c, mp, b, acc, chain, n, depth + 1)
                IN  [roots |-> l.roots \o r.roots, ended |-> l.ended /\ r.ended]
      ELSE IF nRoots = 1
      THEN [roots |-> Append(acc, findRootWithinWSC(c, a, b, chain, n).root),
            ended |-> TRUE]
      ELSE [roots |-> acc, ended |-> TRUE]

\* removeDuplicateFloat keeps the first occurrence of each value.
RECURSIVE removeDuplicateLoop(_, _, _)
removeDuplicateLoop(fSlice, i, list) ==
  IF i > Len(fSlice) THEN list
  ELSE removeDuplicateLoop(fSlice, i + 1,
         IF \E k \in 1..Len(list) : list[k] = fSlice[i] THEN list
         ELSE Append(list, fSlice[i]))
removeDuplicateFloat(fSlice) == removeDuplicateLoop(fSlice, 1, <<>>)

\* rp.FindRootsWithin(a, b)
RealFindRootsWithin(c, a, b, n) ==
  IF RealIsZero(c) THEN [roots |-> <<>>, err |-> TRUE, ended |-> TRUE]
  ELSE LET acc == findRootsWithinAcc(c, a, b, <<>>, realSturmChain(c), n, 1)
       IN  [roots |-> IF RealAt(c, a) = QZero THEN Append(acc.roots, a)
                      ELSE removeDuplicateFloat(acc.roots),
            err |-> FALSE, ended |-> acc.ended]

\* rp.FindIntersectionsWithin(a, b, rp2): tmp is a copy of the struct of rp.
RealFindIntersectionsWithin(c, c2, a, b, n) ==
  LET f == RealFindRootsWithin(SubCoeffs(c, c2), a, b, n)
      r == removeDuplicateFloat(f.roots)
  IN  [points |-> IF f.err THEN <<>>
                  ELSE [i \in 1..Len(r) |-> [X |-> r[i], Y |-> RealAt(c, r[i])]],
       err |-> f.err, ended |-> f.ended]


(***************************************************************************)
(* The Solver.                                                             *)
(***************************************************************************)
\* The branch of IsolateRootsWithin that returns without recursing, for a count
\* of 0 or 1, in a variant that returns the interval for a count of 0 too.
isolateLeafKeepsEmpty(c, a, b) == <<[L |-> a, R |-> b]>>

\* The same branch in a variant that lets the interval start at the left end
\* of the whole query.
isolateLeafFromQueryStart(c, a, b) == IF c = 0 THEN <<>> ELSE <<[L |-> sa, R |-> b]>>

\* The branch of IsolateRootsWithin that returns without recursing: no interval
\* for a count of 0, the interval itself for a count of 1.
isolateLeaf(c, a, b) == IF c = 0 THEN <<>> ELSE <<[L |-> a, R |-> b]>>

\* m := 0.5 * (a + b)
midpoint(a, b) == QMul(QHalf, QAdd(a, b))

solve_linear(p) == <<QDiv(QNeg(p.coef[1]), p.coef[2])>>

\* math.Sqrt on the square of a rational, where it is exact.
ISqrt(n) == CHOOSE k \in 0..n : k * k = n
QSqrt(d) == <<ISqrt(d[1]), ISqrt(d[2])>>

solve_quadratic(p) ==
  LET c == p.coef[1]
      negb == QNeg(p.coef[2])
      a == p.coef[3]
      d == QSub(QMul(negb, negb), QMul(QI(4), QMul(a, c)))
      recip == QDiv(QOne, QMul(QI(2), a))
  IN  IF QLt(QZero, d)
      THEN <<QMul(QAdd(negb, QSqrt(d)), recip), QMul(QSub(negb, QSqrt(d)), recip)>>
      ELSE IF d = QZero THEN <<QMul(negb, recip)>>
           ELSE <<>>

\* The test of the outer loop of solve_random_sample_newton, in a variant that
\* accepts the left end of the interval.
newtonAcceptsClosed(l, v, r) == QLe(l, v) /\ QLe(v, r)

\* The test of the outer loop of solve_random_sample_newton is the negation of
\* left < root && root <= right.
newtonAccepts(l, v, r) == QLt(l, v) /\ QLe(v, r)

\* One step of the inner loop: root -= p.At(root) / fprimeroot.
newtonStep(p, v) == QSub(v, QDiv(At(p, v), At(Derivative(p), v)))

(***************************************************************************)
(* Inputs of the Solver.                                                   *)
(***************************************************************************)
RootVals == {QI(-1), QZero, QI(1)}
EndVals == {QI(-2), QI(-1), QZero, QI(1), QI(2)}
\* The ends of the interval of a single count: also points between the roots.
CountEndVals == EndVals \cup {<<-1, 2>>, <<1, 2>>}
LeadVals == {QOne, QI(-2)}
Precisions == {<<1, 4>>, QOne}
\* The values rand.Float64() takes in the model; it returns a value in [0, 1).
RandVals == {QZero, QHalf, <<3, 4>>}
Searchers == {"ALG_SEARCH_NEWTON", "ALG_SEARCH_BISECT"}

\* The lists of roots a polynomial is built from: nondecreasing, so that each
\* multiset of roots is taken once.
RootLists ==
  UNION {{r \in [1..n -> RootVals] : \A i \in 1..(n - 1) : QLe(r[i], r[i + 1])}
         : n \in 0..MaxRoots}

\* x^2 + 1, which has no real root.
Irreducible == NewPoly(<<QOne, QZero, QOne>>)

\* lead * (x - r[1]) ... (x - r[n]), times x^2 + 1 when quad.
InputPoly(lead, r, quad) ==
  IF Len(r) = 0
  THEN IF quad THEN MulScalar(Irreducible, lead) ELSE NewPolyConst(lead)
  ELSE IF quad THEN Mul(NewPolyFactored(lead, r), Irreducible)
       ELSE NewPolyFactored(lead, r)

\* The distinct real roots of sp within (a, b].
RootsWithin(a, b) == {rts[i] : i \in {j \in 1..Len(rts) : QLt(a, rts[j]) /\ QLe(rts[j], b)}}

\* sp has no repeated root (and is not the zero polynomial).
Squarefree == ~IsZero(sp) /\ \A i, j \in 1..Len(rts) : i # j => rts[i] # rts[j]

InitInputs(ends) ==
  /\ rts \in RootLists
  /\ \E quad \in BOOLEAN :
       \E lead \in LeadVals \cup (IF Len(rts) = 0 /\ ~quad THEN {QZero} ELSE {}) :
         sp = InputPoly(lead, rts, quad)
  /\ sa \in ends
  /\ sb \in ends

\* The locals of a query before it starts.
InitLocals ==
  /\ chainCache = {}
  /\ cnt = 0
  /\ partition = <<>>
  /\ roots = <<>>
  /\ idx = 0
  /\ left = QZero
  /\ right = QZero
  /\ mid = QZero
  /\ passes = 0
  /\ root = QZero
  /\ iter = 0
  /\ restarts = 0
  /\ outcome = "ok"

\* The package defaults of the two search settings.
DefaultNewtonIterations == 500
DefaultBisectPrecision == <<1, 1000000>>

\* NewSolverDefault and the package defaults.
DefaultSettings ==
  /\ searcher = "ALG_SEARCH_BISECT"
  /\ bisectPrecision = DefaultBisectPrecision
  /\ newtonIterations = DefaultNewtonIterations


(***************************************************************************)
(* The Solver as a state machine: one query per behaviour.                 *)
(***************************************************************************)
inputVars == <<sp, rts, sa, sb, searcher, bisectPrecision, newtonIterations, call>>
bisectVars == <<left, right, mid, passes>>
newtonVars == <<root, iter, restarts>>

\* Solver.CountRootsWithin(sp, sa, sb).
DoCountRootsWithin ==
  /\ call = "CountRootsWithin"
  /\ pc = "start"
  /\ pc' = "done"
  /\ chainCache' = cacheStored(chainCache, sp)
  /\ IF countPanics(sa, sb)
     THEN outcome' = "panic_interval" /\ cnt' = cnt
     ELSE outcome' = "ok" /\ cnt' = CountRootsWithin(chainCache, sp, sa, sb)
  /\ UNCHANGED <<kernelVars, inputVars, stack, partition, roots, idx, bisectVars,
                 newtonVars>>

\* Where a query goes on once IsolateRootsWithin has returned to its caller.
afterIsolate == IF call = "IsolateRootsWithin" THEN "done" ELSE "search"

\* One invocation of Solver.IsolateRootsWithin, the top of the stack: it counts,
\* and returns or calls itself on the left half and then on the right half.
\* append(left..., right...) puts the intervals in the order the leaves return.
IsolateRootsWithin ==
  /\ pc = "isolate"
  /\ stack # <<>>
  /\ chainCache' = cacheStored(chainCache, sp)
  /\ LET f == Head(stack)
         c == CountRootsWithin(chainCache, sp, f.a, f.b)
         m == midpoint(f.a, f.b)
     IN  IF countPanics(f.a, f.b)
         THEN /\ outcome' = "panic_interval"
              /\ pc' = "done"
              /\ UNCHANGED <<cnt, stack, partition>>
         ELSE /\ cnt' = c
              /\ IF c = 0 \/ c = 1
                 THEN /\ partition' = partition \o isolateLeaf(c, f.a, f.b)
                      /\ stack' = Tail(stack)
                      /\ pc' = IF Tail(stack) = <<>> THEN afterIsolate ELSE "isolate"
                      /\ outcome' = outcome
                 ELSE IF f.depth >= MaxDepth
                      THEN /\ outcome' = "stack_exhausted"
                           /\ pc' = "done"
                           /\ UNCHANGED <<stack, partition>>
                      ELSE /\ stack' = <<[a |-> f.a, b |-> m, depth |-> f.depth + 1],
                                         [a |-> m, b |-> f.b, depth |-> f.depth + 1]>>
                                       \o Tail(stack)
                           /\ UNCHANGED <<pc, outcome, partition>>
  /\ UNCHANGED <<kernelVars, inputVars, roots, idx, bisectVars, newtonVars>>

\* The head of Solver.FindRootsWithin: the checks, the closed forms of degrees
\* 0, 1 and 2, and the call of IsolateRootsWithin.
FindRootsWithin ==
  /\ \/ call = "FindRootsWithin" /\ pc = "start"
     \/ call = "FindIntersectionsWithin" /\ pc = "find"
  /\ IF QLt(sb, sa)
     THEN outcome' = "panic_interval" /\ pc' = "done" /\ UNCHANGED <<roots, stack, idx>>
     ELSE IF sp.deg = 0
     THEN /\ outcome' = IF sp.coef[1] = QZero THEN "panic_infinite" ELSE "ok"
          /\ pc' = "done"
          /\ UNCHANGED <<roots, stack, idx>>
     ELSE IF sp.deg = 1
     THEN /\ outcome' = "ok" /\ pc' = "done" /\ roots' = solve_linear(sp)
          /\ UNCHANGED <<stack, idx>>
     ELSE IF sp.deg = 2
     THEN /\ outcome' = "ok" /\ pc' = "done" /\ roots' = solve_quadratic(sp)
          /\ UNCHANGED <<stack, idx>>
     ELSE /\ stack' = <<[a |-> sa, b |-> sb, depth |-> 1]>>
          /\ pc' = "isolate"
          /\ idx' = 1
          /\ UNCHANGED <<outcome, roots>>
  /\ UNCHANGED <<kernelVars, inputVars, chainCache, cnt, partition, bisectVars,
                 newtonVars>>

\* The loops of FindRootsWithin over the intervals: the next interval is handed
\* to the search of the Solver, or the roots are returned.
SearchNext ==
  /\ pc = "search"
  /\ IF idx > Len(partition)
     THEN pc' = "done" /\ UNCHANGED <<bisectVars, newtonVars>>
     ELSE /\ left' = partition[idx].L
          /\ right' = partition[idx].R
          /\ IF searcher = "ALG_SEARCH_BISECT"
             THEN pc' = "bisect" /\ mid' = QZero /\ passes' = 0 /\ UNCHANGED newtonVars
             ELSE /\ pc' = "newton"
                  /\ root' = partition[idx].L
                  /\ iter' = 0
                  /\ restarts' = 0
                  /\ mid' = mid
                  /\ passes' = passes
  /\ UNCHANGED <<kernelVars, inputVars, chainCache, outcome, cnt, stack, partition,
                 roots, idx>>


\* One pass of the loop of solve_bisect.
BisectStep ==
  /\ pc = "bisect"
  /\ QLt(bisectPrecision, QSub(right, left))
  /\ IF passes >= MaxBisect
     THEN /\ outcome' = "bisect_exhausted"
          /\ pc' = "done"
          /\ UNCHANGED bisectVars
     ELSE /\ LET m == midpoint(left, right)
             IN  /\ mid' = m
                 /\ IF CountRootsWithin(chainCache, sp, left, m) = 1
                    THEN right' = m /\ left' = left
                    ELSE left' = m /\ right' = right
          /\ passes' = passes + 1
          /\ UNCHANGED <<outcome, pc>>
  /\ chainCache' = cacheStored(chainCache, sp)
  /\ UNCHANGED <<kernelVars, inputVars, cnt, stack, partition, roots, idx, newtonVars>>

\* The loop of solve_bisect ends: mid is returned and appended to roots.
BisectReturn ==
  /\ pc = "bisect"
  /\ ~QLt(bisectPrecision, QSub(right, left))
  /\ roots' = Append(roots, mid)
  /\ idx' = idx + 1
  /\ pc' = "search"
  /\ UNCHANGED <<kernelVars, inputVars, chainCache, outcome, cnt, stack, partition,
                 bisectVars, newtonVars>>

\* The outer loop of solve_random_sample_newton goes round: a random start is
\* drawn.  The model draws at most MaxRestarts starts for one interval.
NewtonSample ==
  /\ pc = "newton"
  /\ ~newtonAccepts(left, root, right)
  /\ restarts < MaxRestarts
  /\ \E r \in RandVals : root' = QAdd(left, QMul(r, QSub(right, left)))
  /\ iter' = 0
  /\ restarts' = restarts + 1
  /\ pc' = "newton_iter"
  /\ UNCHANGED <<kernelVars, inputVars, chainCache, outcome, cnt, stack, partition,
                 roots, idx, bisectVars>>

\* One pass of the inner loop of solve_random_sample_newton.
NewtonStep ==
  /\ pc = "newton_iter"
  /\ iter < newtonIterations
  /\ At(Derivative(sp), root) # QZero
  /\ root' = newtonStep(sp, root)
  /\ iter' = iter + 1
  /\ UNCHANGED <<kernelVars, inputVars, chainCache, outcome, pc, cnt, stack,
                 partition, roots, idx, bisectVars, restarts>>

\* The inner loop ends: i reached newtonIterations, or the derivative is zero.
NewtonAttemptEnds ==
  /\ pc = "newton_iter"
  /\ ~(iter < newtonIterations /\ At(Derivative(sp), root) # QZero)
  /\ pc' = "newton"
  /\ UNCHANGED <<kernelVars, inputVars, chainCache, outcome, cnt, stack, partition,
                 roots, idx, bisectVars, newtonVars>>

\* The outer loop ends: root is returned and appended to roots.
NewtonReturn ==
  /\ pc = "newton"
  /\ newtonAccepts(left, root, right)
  /\ roots' = Append(roots, root)
  /\ idx' = idx + 1
  /\ pc' = "search"
  /\ UNCHANGED <<kernelVars, inputVars, chainCache, outcome, cnt, stack, partition,
                 bisectVars, newtonVars>>

(***************************************************************************)
(* Specifications of the Solver.                                           *)
(***************************************************************************)
\* A root count on a fresh default Solver.
InitCount ==
  /\ KernelIdle
  /\ RaceIdle
  /\ InitInputs(CountEndVals)
  /\ InitLocals
  /\ DefaultSettings
  /\ call = "CountRootsWithin"
  /\ pc = "start"
  /\ stack = <<>>

NextCount == DoCountRootsWithin

SpecCount == InitCount /\ [][NextCount]_vars

\* An isolation on a fresh default Solver: the first invocation is pending.
InitIsolate ==
  /\ KernelIdle
  /\ RaceIdle
  /\ InitInputs(EndVals)
  /\ InitLocals
  /\ DefaultSettings
  /\ call = "IsolateRootsWithin"
  /\ pc = "isolate"
  /\ stack = <<[a |-> sa, b |-> sb, depth |-> 1]>>

NextIsolate == IsolateRootsWithin

SpecIsolate == InitIsolate /\ [][NextIsolate]_vars

\* A root search, after SetBisectSearchPrecision and SetNewtonSearchIterations.
InitFind ==
  /\ KernelIdle
  /\ RaceIdle
  /\ InitInputs(EndVals)
  /\ InitLocals
  /\ searcher \in Searchers
  /\ bisectPrecision \in Precisions
  /\ newtonIterations \in 0..MaxNewton
  /\ call = "FindRootsWithin"
  /\ pc = "start"
  /\ stack = <<>>

NextFind ==
  \/ FindRootsWithin
  \/ IsolateRootsWithin
  \/ SearchNext
  \/ BisectStep
  \/ BisectReturn
  \/ NewtonSample
  \/ NewtonStep
  \/ NewtonAttemptEnds
  \/ NewtonReturn

SpecFind == InitFind /\ [][NextFind]_vars


(***************************************************************************)
(* Claims about the Sturm count.                                           *)
(***************************************************************************)
\* C5: for a squarefree polynomial and a <= b the Sturm count on (a, b] is the
\* number of distinct real roots r with a < r <= b: a root at the right end b
\* is counted, a root at the left end a is not.
C5_SturmCountOnHalfOpenInterval ==
  (call = "CountRootsWithin" /\ pc = "done" /\ outcome = "ok" /\ Squarefree)
    => cnt = Cardinality(RootsWithin(sa, sb))

\* A count on an interval with a root at each end: only the right one counts.
C5_RootAtEachEnd ==
  /\ call = "CountRootsWithin" /\ pc = "done" /\ outcome = "ok" /\ Squarefree
  /\ \E i, j \in 1..Len(rts) : rts[i] = sa /\ rts[j] = sb /\ QLt(sa, sb)
  /\ cnt = 1

\* C6: the sign variations of a sequence of Sturm-chain values are counted by
\* removing every zero value and then counting the adjacent pairs of the
\* remaining values whose product is negative; a zero never adds a variation,
\* be it first, in the middle or last.
C6_ZeroNeverAddsVariation ==
  (call = "CountRootsWithin" /\ pc = "done" /\ outcome = "ok")
    => LET chain == cacheSturmChain(chainCache, sp)
       IN  /\ signChangesAt(chain, sa) = countSignVariations(chainValues(chain, sa))
           /\ signChangesAt(chain, sb) = countSignVariations(chainValues(chain, sb))

(***************************************************************************)
(* Claims about the isolation.                                             *)
(***************************************************************************)
\* C3: IsolateRootsWithin(p, a, b) returns exactly CountRootsWithin(p, a, b)
\* subintervals, each (L, R] with CountRootsWithin(p, L, R) = 1; the returned
\* subintervals together hold exactly the roots counted on (a, b], one each.
C3_IsolateReturnsOneIntervalPerRoot ==
  (call = "IsolateRootsWithin" /\ pc = "done" /\ outcome = "ok")
    => /\ Len(partition) = CountRootsWithin(chainCache, sp, sa, sb)
       /\ \A i \in 1..Len(partition) :
            CountRootsWithin(chainCache, sp, partition[i].L, partition[i].R) = 1
       /\ Squarefree =>
            /\ \A i \in 1..Len(partition) :
                 Cardinality(RootsWithin(partition[i].L, partition[i].R)) = 1
            /\ \A r \in RootsWithin(sa, sb) :
                 \E i \in 1..Len(partition) :
                   r \in RootsWithin(partition[i].L, partition[i].R)

\* An isolation that split the interval and returned several subintervals.
C3_SeveralIntervalsReturned ==
  /\ call = "IsolateRootsWithin" /\ pc = "done" /\ outcome = "ok"
  /\ Len(partition) >= 2
  /\ partition[1].L = sa
  /\ partition[Len(partition)].R = sb

\* C4: the isolation recursion terminates for every polynomial and every
\* interval a <= b: it never runs out of stack.
C4_IsolationRecursionTerminates ==
  call = "IsolateRootsWithin" => outcome # "stack_exhausted"

\* For the squarefree polynomials of the model the recursion ends before the
\* depth at which the model gives up.
SquarefreeIsolationEnds ==
  Squarefree => outcome # "stack_exhausted"


(***************************************************************************)
(* Claims about the root search.                                           *)
(***************************************************************************)
\* FindRootsWithin has returned or panicked.
FindEnded == call = "FindRootsWithin" /\ pc = "done"

\* FindRootsWithin went through IsolateRootsWithin and refines the intervals:
\* roots[i] is the value returned for partition[i].
Refining == call = "FindRootsWithin" /\ pc \in {"search", "bisect", "newton", "newton_iter"}

\* C7: given a <= b, FindRootsWithin(p, a, b) fails with the infinite-solutions
\* error if and only if p is the zero polynomial; for every nonzero p it returns
\* a list, empty when there is no root in range, and never an error.
C7_InfiniteSolutionsOnlyForZero ==
  (FindEnded /\ QLe(sa, sb))
    => /\ (outcome = "panic_infinite") <=> IsZero(sp)
       /\ ~IsZero(sp) => /\ outcome = "ok"
                         /\ RootsWithin(sa, sb) = {} => roots = <<>>

\* C8: Solver.FindRootsWithin(p, a, b) returns the distinct roots of p on
\* (a, b]: every returned r has a < r <= b and none is returned twice, for p of
\* every degree >= 1.
C8_ReturnedRootsWithinInterval ==
  (FindEnded /\ outcome = "ok" /\ sp.deg >= 1)
    => /\ \A i \in 1..Len(roots) : QLt(sa, roots[i]) /\ QLe(roots[i], sb)
       /\ \A i, j \in 1..Len(roots) : i # j => roots[i] # roots[j]

\* C9: bisection refinement on an isolating interval (L, R] returns x with
\* L <= x <= R, for every isolating interval and every configured precision.
C9_BisectReturnsWithinInterval ==
  ((Refining \/ FindEnded) /\ searcher = "ALG_SEARCH_BISECT" /\ sp.deg >= 3)
    => \A i \in 1..Len(roots) :
         QLe(partition[i].L, roots[i]) /\ QLe(roots[i], partition[i].R)

CacheInputs ==
  { [p |-> NewPoly(<<QOne, QZero>>), r |-> <<QZero>>],
    [p |-> NewPoly(<<QOne, <<1, 4000000>>>>), r |-> <<(<<-1, 4000000>>)>>],
    [p |-> NewPolyFactored(QOne, <<QI(-1), QZero, QI(1)>>), r |-> <<QI(-1), QZero, QI(1)>>] }
CacheEndVals == {QI(-1), QI(1)}
Calls == {"CountRootsWithin", "IsolateRootsWithin", "FindRootsWithin"}

\* The pc and the stack at which a call of the given method starts.
startPc(c) == IF c = "IsolateRootsWithin" THEN "isolate" ELSE "start"
startStack(c, a, b) ==
  IF c = "IsolateRootsWithin" THEN <<[a |-> a, b |-> b, depth |-> 1]>> ELSE <<>>

\* NewSolver, SetBisectSearchPrecision(0.25), and the first query.
InitCache ==
  /\ KernelIdle
  /\ RaceIdle
  /\ InitLocals
  /\ searcher = "ALG_SEARCH_BISECT"
  /\ bisectPrecision = <<1, 4>>
  /\ newtonIterations = DefaultNewtonIterations
  /\ \E in \in CacheInputs : sp = in.p /\ rts = in.r
  /\ sa \in CacheEndVals
  /\ sb \in CacheEndVals
  /\ call \in Calls
  /\ pc = startPc(call)
  /\ stack = startStack(call, sa, sb)

\* The caller puts the next query to the same Solver, after a result or after
\* recovering from a panic; the cache is the Solver's and stays.
NextQuery ==
  /\ pc = "done"
  /\ outcome # "stack_exhausted"
  /\ nops < MaxQueries - 1
  /\ nops' = nops + 1
  /\ \E in \in CacheInputs : sp' = in.p /\ rts' = in.r
  /\ sa' \in CacheEndVals
  /\ sb' \in CacheEndVals
  /\ call' \in Calls
  /\ pc' = startPc(call')
  /\ stack' = startStack(call', sa', sb')
  /\ outcome' = "ok"
  /\ cnt' = 0 /\ partition' = <<>> /\ roots' = <<>> /\ idx' = 0
  /\ left' = QZero /\ right' = QZero /\ mid' = QZero /\ passes' = 0
  /\ UNCHANGED <<api, x, y, o, h, rret, globalVars, raceVars, searcher, bisectPrecision,
                 newtonIterations,
                 chainCache, newtonVars>>

NextCache ==
  \/ NextQuery
  \/ DoCountRootsWithin
  \/ IsolateRootsWithin
  \/ FindRootsWithin
  \/ SearchNext
  \/ BisectStep
  \/ BisectReturn

SpecCache == InitCache /\ [][NextCache]_vars


(***************************************************************************)
(* Claims about the chain cache.                                           *)
(***************************************************************************)
\* C11: a new Solver starts with an empty chain cache; over any sequence of
\* CountRootsWithin / IsolateRootsWithin / FindRootsWithin calls a chain is
\* built and stored only on the first request for an identifier, every later
\* request under that identifier gets the stored chain, and a stored entry is
\* never removed, replaced or altered.
C11_ChainBuiltOncePerIdentifier ==
  /\ chainCache = {}
  /\ [](\A e, f \in chainCache : e.key = f.key => e = f)
  /\ []((call = "CountRootsWithin" /\ pc = "done" /\ outcome = "ok")
          => \E e \in chainCache : e.key = id(sp) /\ cnt = count(e.chain, sa, sb))
  /\ [][ /\ \A e \in chainCache : e \in chainCache'
         /\ Cardinality(chainCache' \ chainCache) <= 1
         /\ \A e \in chainCache' \ chainCache :
              /\ ~\E f \in chainCache : f.key = e.key
              /\ e.key = id(sp)
              /\ e.chain = new_sturmChain(sp)
       ]_vars

\* A second query, for another polynomial, whose isolation asked for the chain
\* several times: the cache holds one entry for each of the two polynomials.
C11_TwoPolynomialsOneEntryEach ==
  /\ call = "IsolateRootsWithin" /\ pc = "done" /\ outcome = "ok"
  /\ nops = 1
  /\ Len(partition) >= 2
  /\ Cardinality(chainCache) = 2


(***************************************************************************)
(* Claims about division, scalar multiplication and equality.              *)
(***************************************************************************)
\* The remainder is the zero polynomial or of lower degree than the divisor.
remainderIsSmaller(rem, q) == rem.coef \in {<<>>, <<QZero>>} \/ rem.deg < q.deg

\* Poly.Div(p, q) returns a pair with p = quotient * q + remainder.
polyDivisionIdentity(p, q) ==
  LET d == Div(p, q)
  IN  /\ Add(Mul(d[1], q), d[2]) = p
      /\ remainderIsSmaller(d[2], q)
      /\ p.deg < q.deg => d[1] = NewPolyZero /\ d[2] = p

\* RealPolynomial.EuclideanDiv returns, and returns such a pair; the coeffs of
\* a RealPolynomial are in the order of Poly.coef.
realDivisionIdentity(c1, c2) ==
  /\ ~EuclideanDivPanics(c1, c2)
  /\ ~EuclideanDivHangs(c1, c2)
  /\ LET d == EuclideanDiv(c1, c2)
         quo == newPolyNoReverse(d[1])
         rem == newPolyNoReverse(d[2])
         p == newPolyNoReverse(c1)
         q == newPolyNoReverse(c2)
     IN  /\ Add(Mul(quo, q), rem) = p
         /\ remainderIsSmaller(rem, q)
         /\ p.deg < q.deg => d[1] = <<QZero>> /\ d[2] = c1

\* The operands of the caller are polynomials a constructor could have made.
wellFormedPoly(p) == p.len >= 1 /\ Canonical(p.coef)
wellFormedReal(c) == Len(c) >= 1 /\ Canonical(c)

\* C12: for every polynomial p and every nonzero polynomial q, division returns
\* (quotient, remainder) with p = quotient * q + remainder and the remainder zero
\* or of lower degree than q; when degree(p) < degree(q) the quotient is the
\* zero polynomial and the remainder is p.
C12_DivisionIdentity ==
  /\ (api = "Poly" /\ wellFormedPoly(x) /\ wellFormedPoly(o) /\ ~IsZero(o))
       => polyDivisionIdentity(x, o)
  /\ (api = "Real" /\ wellFormedReal(h[1]) /\ wellFormedReal(h[2]) /\ ~RealIsZero(h[2]))
       => realDivisionIdentity(h[1], h[2])


\* The polynomial whose coefficients are all 0.
allZero(c) == Len(c) >= 1 /\ \A k \in 1..Len(c) : c[k] = QZero

\* C13: division by the zero polynomial panics for every dividend, the zero
\* dividend included, before any quotient or remainder is produced.
C13_DivisionByZeroPanics ==
  /\ (api = "Poly" /\ allZero(o.coef)) => DivPanics(x, o)
  /\ (api = "Real" /\ Usable(h[1]) /\ allZero(h[2])) => EuclideanDivPanics(h[1], h[2])


\* C14: multiplying a polynomial by the scalar 0 yields the canonical zero
\* polynomial (one coefficient 0), not a vector of zeros of the old length;
\* multiplying by a nonzero scalar s multiplies each coefficient by s.
C14_ScalarZeroGivesCanonicalZero ==
  /\ (api = "Poly" /\ wellFormedPoly(x)) =>
       /\ MulScalar(x, QZero) = [coef |-> <<QZero>>, len |-> 1, deg |-> 0]
       /\ \A s \in Scalars \ {QZero} :
            MulScalar(x, s).coef = [i \in 1..x.len |-> QMul(s, x.coef[i])]
  /\ (api = "Real" /\ wellFormedReal(h[1])) =>
       /\ MulS(h[1], QZero) = <<QZero>>
       /\ \A s \in Scalars \ {QZero} :
            MulS(h[1], s) = [i \in 1..Len(h[1]) |-> QMul(s, h[1][i])]


\* C15: Add and Sub leave the other operand as it was: after p.Add(q) or
\* p.Sub(q) with q another object than p, q has the same coefficient sequence,
\* in length and in values, as before the call.
C15_OtherOperandUnchanged ==
  api = "Real" =>
    \A i, j \in 1..2 :
      (i # j /\ Usable(h[i]) /\ Usable(h[j])) =>
         /\ RealAdd(h, i, j)[j] = h[j]
         /\ RealSub(h, i, j)[j] = h[j]


\* C16: Equal(p, q) is true if and only if p and q have the same degree and
\* all corresponding coefficients are equal; Equal(p, p) is true, and
\* Equal(p, q) = Equal(q, p).
C16_EqualIsCoefficientwise ==
  /\ (api = "Poly" /\ wellFormedPoly(x) /\ wellFormedPoly(o)) =>
       /\ Equal(x, o) <=> (x.deg = o.deg /\ x.coef = o.coef)
       /\ Equal(x, x)
       /\ Equal(x, o) <=> Equal(o, x)
  /\ (api = "Real" /\ Usable(h[1]) /\ Usable(h[2])) =>
       /\ RealEqual(h[1], h[2]) <=> (Degree(h[1]) = Degree(h[2]) /\ h[1] = h[2])
       /\ RealEqual(h[1], h[1])
       /\ RealEqual(h[1], h[2]) <=> RealEqual(h[2], h[1])


(***************************************************************************)
(* Claims about the Sturm chain.                                           *)
(***************************************************************************)
\* C17: the Sturm chain built for any polynomial p has length >= 1, and its
\* length is 1 if and only if p is constant and nonzero.
C17_ChainLengthOneIffNonzeroConstant ==
  /\ Len(new_sturmChain(sp)) >= 1
  /\ Len(new_sturmChain(sp)) = 1 <=> (IsConstant(sp) /\ ~IsZero(sp))
  /\ Len(realSturmChain(sp.coef)) >= 1
  /\ Len(realSturmChain(sp.coef)) = 1 <=> (Degree(sp.coef) = 0 /\ ~RealIsZero(sp.coef))


\* c is the chain of the non-constant p: it starts with p and p', each later
\* element is minus the remainder of the two before it, only the last element
\* is constant, the degrees decrease strictly, and it fits the p.deg + 1 slots.
sturmRecurrence(p, c) ==
  /\ Len(c) >= 2
  /\ c[1] = p
  /\ c[2] = Derivative(p)
  /\ \A k \in 2..(Len(c) - 1) :
       /\ Sub(Mul(Div(c[k - 1], c[k])[1], c[k]), c[k + 1]) = c[k - 1]
       /\ remainderIsSmaller(c[k + 1], c[k])
  /\ \A k \in 1..(Len(c) - 1) : ~IsConstant(c[k]) /\ c[k + 1].deg < c[k].deg
  /\ IsConstant(c[Len(c)])
  /\ Len(c) <= p.deg + 1

\* C18: for a non-constant p the Sturm chain is c[0] = p, c[1] = p',
\* c[k+1] = -rem(c[k-1], c[k]); construction stops at the first constant
\* element, the degrees strictly decrease, and the chain has at most
\* deg(p) + 1 elements, the slots allocated for it.
C18_ChainIsNegatedRemainderSequence ==
  ~IsConstant(sp) =>
    /\ \A e \in chainCache : e.key = id(sp) => sturmRecurrence(sp, e.chain)
    /\ LET rc == realSturmChain(sp.coef)
       IN  sturmRecurrence(sp, [k \in 1..Len(rc) |-> newPolyNoReverse(rc[k])])

\* A chain that fills every slot has been stored for a polynomial of degree 3
\* or more.
C18_FullChainStored ==
  /\ sp.deg >= 3
  /\ \E e \in chainCache : e.key = id(sp) /\ Len(e.chain) = sp.deg + 1


(***************************************************************************)
(* Claims about the intervals of a query.                                  *)
(***************************************************************************)
\* C19: the subintervals returned by IsolateRootsWithin(p, a, b) are in
\* left-to-right order and pairwise non-overlapping (the right end of each is
\* <= the left end of the next), and each lies inside (a, b]: a <= L < R <= b;
\* a count of 0 yields the empty list and a count of 1 exactly (a, b].
C19_IntervalsOrderedAndDisjoint ==
  (call = "IsolateRootsWithin" /\ pc = "done" /\ outcome = "ok")
    => /\ \A i \in 1..Len(partition) :
            /\ QLe(sa, partition[i].L)
            /\ QLt(partition[i].L, partition[i].R)
            /\ QLe(partition[i].R, sb)
       /\ \A i \in 1..(Len(partition) - 1) : QLe(partition[i].R, partition[i + 1].L)
       /\ CountRootsWithin(chainCache, sp, sa, sb) = 0 => partition = <<>>
       /\ CountRootsWithin(chainCache, sp, sa, sb) = 1 => partition = <<[L |-> sa, R |-> sb]>>

\* An isolation that returned three subintervals.
C19_ThreeIntervalsReturned ==
  call = "IsolateRootsWithin" /\ pc = "done" /\ outcome = "ok" /\ Len(partition) = 3


\* The head of Solver.FindIntersectionsWithin(x, o, sa, sb): the check of the
\* interval, and the call of FindRootsWithin on x.Sub(o).
FindIntersectionsWithin ==
  /\ call = "FindIntersectionsWithin"
  /\ pc = "start"
  /\ IF QLt(sb, sa)
     THEN outcome' = "panic_interval" /\ pc' = "done" /\ sp' = sp
     ELSE outcome' = outcome /\ pc' = "find" /\ sp' = Sub(x, o)
  /\ UNCHANGED <<kernelVars, rts, sa, sb, searcher, bisectPrecision, newtonIterations,
                 call, chainCache, cnt, stack, partition, roots, idx, bisectVars,
                 newtonVars>>

\* What FindIntersectionsWithin returns once FindRootsWithin has returned roots.
points == [i \in 1..Len(roots) |-> [X |-> roots[i], Y |-> At(x, roots[i])]]

\* The polynomials and the interval ends of the queries below: x^3 - x, x and
\* x^2 for p; 0, 1 and x for q.
IntervalPolys ==
  {NewPolyFactored(QOne, <<QI(-1), QZero, QI(1)>>), NewPoly(<<QOne, QZero>>),
   NewPoly(<<QOne, QZero, QZero>>)}
IntervalOthers == {NewPolyZero, NewPolyConst(QOne), NewPoly(<<QOne, QZero>>)}
IntervalEndVals == {QI(-2), QI(-1), QZero, QI(1), QI(2)}
IntervalCalls == Calls \cup {"FindIntersectionsWithin"}

\* One query of any of the four methods on a fresh Solver; the caller holds the
\* polynomials x and o, and the query is about x (and o, for an intersection).
InitInterval ==
  /\ globalNewtonIterations \in 0..MaxNewton
  /\ epsilon = DefaultEpsilon
  /\ arg = NoCall
  /\ RaceIdle
  /\ api = "none"
  /\ x \in IntervalPolys
  /\ o \in IntervalOthers
  /\ y = NewPolyZero
  /\ h = <<<<QZero>>, <<QZero>>>>
  /\ rret = <<QZero>>
  /\ nops = 0
  /\ InitLocals
  /\ searcher = "ALG_SEARCH_BISECT"
  /\ bisectPrecision = <<1, 4>>
  /\ newtonIterations = DefaultNewtonIterations
  /\ sp = x
  /\ rts = <<>>
  /\ sa \in IntervalEndVals
  /\ sb \in IntervalEndVals
  /\ call \in IntervalCalls
  /\ pc = startPc(call)
  /\ stack = startStack(call, sa, sb)

NextInterval ==
  \/ DoCountRootsWithin
  \/ IsolateRootsWithin
  \/ FindRootsWithin
  \/ FindIntersectionsWithin
  \/ SearchNext
  \/ BisectStep
  \/ BisectReturn

SpecInterval == InitInterval /\ [][NextInterval]_vars

\* C20: every Solver query that takes an interval (CountRootsWithin,
\* IsolateRootsWithin, FindRootsWithin, FindIntersectionsWithin) fails with the
\* invalid-interval panic whenever a > b, before it returns any result, and
\* does not fail for that reason when a <= b; a = b is accepted.
C20_InvalidIntervalIffReversed ==
  /\ QLt(sb, sa) =>
       /\ pc # startPc(call) => (pc = "done" /\ outcome = "panic_interval")
       /\ cnt = 0 /\ partition = <<>> /\ roots = <<>> /\ points = <<>>
  /\ QLe(sa, sb) =>
       /\ outcome # "panic_interval"
       /\ pc = "bisect" => ~countPanics(left, midpoint(left, right))

\* An intersection query on an empty interval a = b that went through the
\* isolation and returned.
C20_EmptyIntervalAccepted ==
  /\ call = "FindIntersectionsWithin" /\ pc = "done" /\ outcome = "ok"
  /\ sa = sb
  /\ sp.deg >= 3


(***************************************************************************)
(* Claims about intersections and settings.                                *)
(***************************************************************************)
\* What FindIntersectionsWithin has to return for the roots r of p - q.
pointsOf(r, p) == [i \in 1..Len(r) |-> [X |-> r[i], Y |-> At(p, r[i])]]

\* C21: FindIntersectionsWithin(p, q, a, b) returns, in the same order, exactly
\* one point (x, p(x)) for each element x of FindRootsWithin(p - q, a, b), with
\* p the unmodified polynomial of the caller, and it fails exactly when
\* FindRootsWithin(p - q, a, b) fails, as it does when p and q are the same.
C21_IntersectionsAreRootsOfDifference ==
  /\ (call = "FindIntersectionsWithin" /\ pc # "start" /\ outcome # "panic_interval")
       => /\ sp = Sub(x, o)
          /\ points = pointsOf(roots, x)
          /\ (pc = "done" /\ x = o) => outcome = "panic_infinite"
  /\ LET d == SubCoeffs(x.coef, o.coef)
         fr == RealFindRootsWithin(d, sa, sb, globalNewtonIterations)
         fi == RealFindIntersectionsWithin(x.coef, o.coef, sa, sb, globalNewtonIterations)
     IN  fr.ended =>
           /\ fi.err = fr.err
           /\ Len(fi.points) = Len(fr.roots)
           /\ \A i \in 1..Len(fi.points) :
                fi.points[i] = [X |-> fr.roots[i], Y |-> RealAt(x.coef, fr.roots[i])]


(***************************************************************************)
(* The settings of the package: the four setters and the queries that     *)
(* read what they set.                                                     *)
(***************************************************************************)
\* approxEqual of the older snapshot, which reads the package variable epsilon
\* (here the parameter eps): the absolute or the relative error is at most eps.
approxEqual(a, b, eps) ==
  IF a = b THEN TRUE
  ELSE LET absErr == QAbs(QSub(a, b))
           relErr == QDiv(absErr, QAdd(QAbs(a), QAbs(b)))
       IN  QLe(absErr, eps) \/ QLe(relErr, eps)

\* sign of the older snapshot.
signApprox(a, eps) ==
  IF approxEqual(a, QZero, eps) THEN 0
  ELSE IF a[1] > 0 THEN 1 ELSE -1

\* The loop of the older count at one end e, as countLoop.
RECURSIVE countLoopApprox(_, _, _, _, _, _)
countLoopApprox(chain, e, i, prevs, v, eps) ==
  IF i > Len(chain) THEN v
  ELSE LET currs == signApprox(At(chain[i], e), eps)
       IN  countLoopApprox(chain, e, i + 1, currs,
                           IF signChanged(prevs, currs) THEN v + 1 ELSE v, eps)

\* The older count: a negative difference of the sign changes is returned as 0.
clampedCount(chain, a, b, eps) ==
  IF Len(chain) = 1 THEN 0
  ELSE LET va == countLoopApprox(chain, a, 2, signApprox(At(chain[1], a), eps), 0, eps)
           vb == countLoopApprox(chain, b, 2, signApprox(At(chain[1], b), eps), 0, eps)
       IN  IF va - vb < 0 THEN 0 ELSE va - vb

\* The arguments the setters are called with.
IntSettings == {-1, 0, 1}
FloatSettings == {<<-1, 4>>, QZero, <<1, 4>>, QOne}

settingVars == <<globalNewtonIterations, epsilon, bisectPrecision, newtonIterations>>
queryVars == <<sp, rts, sa, sb, searcher, call, pc, chainCache, outcome, cnt, stack,
               partition, roots, idx, bisectVars, newtonVars>>

\* A call of a setter by the caller of the package, before the query.
SetterCall(name, v, res) ==
  /\ pc = "start"
  /\ nops < MaxOps
  /\ nops' = nops + 1
  /\ arg' = [name |-> name, v |-> v, res |-> res]
  /\ UNCHANGED <<api, x, y, o, h, rret, raceVars, queryVars>>

\* A variant of SetBisectSearchPrecision that stores v before it panics.
SetBisectSearchPrecisionStoresFirst ==
  \E v \in FloatSettings :
    /\ SetterCall("SetBisectSearchPrecision", v, IF QLt(v, QZero) THEN "panic" ELSE "ok")
    /\ bisectPrecision' = v
    /\ UNCHANGED <<globalNewtonIterations, epsilon, newtonIterations>>

\* SetNewtonIterations(n) of the RealPolynomial API: an error for n < 0.
SetNewtonIterations ==
  \E n \in IntSettings :
    /\ SetterCall("SetNewtonIterations", QI(n), IF n < 0 THEN "error" ELSE "ok")
    /\ globalNewtonIterations' = IF n < 0 THEN globalNewtonIterations ELSE n
    /\ UNCHANGED <<epsilon, bisectPrecision, newtonIterations>>

\* SetNewtonSearchIterations(v): a panic for v < 0.
SetNewtonSearchIterations ==
  \E v \in IntSettings :
    /\ SetterCall("SetNewtonSearchIterations", QI(v), IF v < 0 THEN "panic" ELSE "ok")
    /\ newtonIterations' = IF v < 0 THEN newtonIterations ELSE v
    /\ UNCHANGED <<globalNewtonIterations, epsilon, bisectPrecision>>

\* SetBisectSearchPrecision(v): a panic for v < 0.
SetBisectSearchPrecision ==
  \E v \in FloatSettings :
    /\ SetterCall("SetBisectSearchPrecision", v, IF QLt(v, QZero) THEN "panic" ELSE "ok")
    /\ bisectPrecision' = IF QLt(v, QZero) THEN bisectPrecision ELSE v
    /\ UNCHANGED <<globalNewtonIterations, epsilon, newtonIterations>>

\* SetEpsilon(v): a panic for v < 0.
SetEpsilon ==
  \E v \in FloatSettings :
    /\ SetterCall("SetEpsilon", v, IF QLt(v, QZero) THEN "panic" ELSE "ok")
    /\ epsilon' = IF QLt(v, QZero) THEN epsilon ELSE v
    /\ UNCHANGED <<globalNewtonIterations, bisectPrecision, newtonIterations>>

\* The queries the model follows to their end: Newton's method with at most
\* MaxNewton iterations, and bisection to a precision of Precisions or to 0.
Followable ==
  /\ call = "FindRootsWithin" /\ searcher = "ALG_SEARCH_NEWTON"
       => newtonIterations <= MaxNewton
  /\ call = "FindRootsWithin" /\ searcher = "ALG_SEARCH_BISECT"
       => bisectPrecision \in Precisions \cup {QZero}
  /\ call = "RealFindRootsWithin" => globalNewtonIterations <= MaxNewton

\* Solver.FindRootsWithin under the settings in force.
SettingsFindRootsWithin == Followable /\ FindRootsWithin

\* RealPolynomial.FindRootsWithin of the polynomial with the coefficients of
\* sp, which iterates globalNewtonIterations times.
DoRealFindRootsWithin ==
  /\ call = "RealFindRootsWithin"
  /\ pc = "start"
  /\ Followable
  /\ LET f == RealFindRootsWithin(sp.coef, sa, sb, globalNewtonIterations)
     IN  /\ roots' = f.roots
         /\ outcome' = IF f.err THEN "error" ELSE "ok"
  /\ pc' = "done"
  /\ UNCHANGED <<kernelVars, inputVars, chainCache, cnt, stack, partition, idx,
                 bisectVars, newtonVars>>

\* count of the older snapshot, whose sign reads epsilon.
DoClampedCount ==
  /\ call = "count"
  /\ pc = "start"
  /\ pc' = "done"
  /\ IF countPanics(sa, sb)
     THEN outcome' = "panic_interval" /\ cnt' = cnt
     ELSE outcome' = "ok" /\ cnt' = clampedCount(new_sturmChain(sp), sa, sb, epsilon)
  /\ UNCHANGED <<kernelVars, inputVars, chainCache, stack, partition, roots, idx,
                 bisectVars, newtonVars>>

SettingsCalls == {"FindRootsWithin", "RealFindRootsWithin", "count"}
SettingsRoots == {<<QZero>>, <<QI(-1), QZero, QI(1)>>}

\* A fresh default Solver and the package defaults; the caller may call setters
\* before it puts its query.
InitSettings ==
  /\ KernelIdle
  /\ RaceIdle
  /\ rts \in SettingsRoots
  /\ sp = InputPoly(QOne, rts, Len(rts) = 1)
  /\ sa = QI(-2)
  /\ sb \in {QZero, QI(2)}
  /\ InitLocals
  /\ searcher \in Searchers
  /\ bisectPrecision = DefaultBisectPrecision
  /\ newtonIterations = DefaultNewtonIterations
  /\ call \in SettingsCalls
  /\ pc = "start"
  /\ stack = <<>>

NextSettings ==
  \/ SetNewtonIterations
  \/ SetNewtonSearchIterations
  \/ SetBisectSearchPrecision
  \/ SetEpsilon
  \/ SettingsFindRootsWithin
  \/ DoRealFindRootsWithin
  \/ DoClampedCount
  \/ IsolateRootsWithin
  \/ SearchNext
  \/ BisectStep
  \/ BisectReturn
  \/ NewtonSample
  \/ NewtonStep
  \/ NewtonAttemptEnds
  \/ NewtonReturn

SpecSettings == InitSettings /\ [][NextSettings]_vars

\* C22: a setter called with a negative argument fails and leaves every
\* setting as it was; called with a non-negative argument it succeeds and
\* stores the argument; no query changes a setting, and the refinements read
\* the stored values: bisection goes on exactly while the width exceeds
\* bisectPrecision, Newton's method makes at most newtonIterations steps, the
\* RealPolynomial search iterates globalNewtonIterations times and the older
\* count compares with epsilon.
C22_SettersRejectNegativeAndStoreTheRest ==
  [][/\ arg' # arg =>
          LET c == arg'
              stored == CASE c.name = "SetNewtonIterations" -> QI(globalNewtonIterations')
                          [] c.name = "SetNewtonSearchIterations" -> QI(newtonIterations')
                          [] c.name = "SetBisectSearchPrecision" -> bisectPrecision'
                          [] c.name = "SetEpsilon" -> epsilon'
          IN  IF QLt(c.v, QZero)
              THEN c.res \in {"error", "panic"} /\ settingVars' = settingVars
              ELSE c.res = "ok" /\ stored = c.v
     /\ arg' = arg => settingVars' = settingVars
     /\ (pc = "bisect" /\ pc' = "search") => QLe(QSub(right, left), bisectPrecision)
     /\ (pc = "bisect" /\ passes' = passes + 1) => QLt(bisectPrecision, QSub(right, left))
     /\ (pc = "newton_iter" /\ iter' = iter + 1) => iter < newtonIterations
     /\ (pc = "newton_iter" /\ pc' = "newton")
          => iter = newtonIterations \/ At(Derivative(sp), root) = QZero
     /\ (call = "RealFindRootsWithin" /\ pc' = "done")
          => roots' = RealFindRootsWithin(sp.coef, sa, sb, globalNewtonIterations).roots
     /\ (call = "count" /\ pc' = "done" /\ outcome' = "ok")
          => cnt' = clampedCount(new_sturmChain(sp), sa, sb, epsilon)
    ]_vars

\* A search by bisection has ended after a rejected and an accepted call of
\* SetBisectSearchPrecision.
C22_SearchAfterSetters ==
  /\ call = "FindRootsWithin" /\ pc = "done" /\ outcome = "ok"
  /\ searcher = "ALG_SEARCH_BISECT"
  /\ nops = 2
  /\ arg = [name |-> "SetBisectSearchPrecision", v |-> <<-1, 4>>, res |-> "panic"]
  /\ bisectPrecision = QOne
  /\ Len(roots) = 3


(***************************************************************************)
(* Multiplication by the fast Fourier transform.  A complex128 is a pair   *)
(* <<re, im>> of rationals; the roots of unity of the transforms of length *)
(* 2 and 4 are -1, i and -i, which are such pairs.                         *)
(***************************************************************************)
\* The longest transform the model computes.
MaxFFT == 4

CAdd(a, b) == <<QAdd(a[1], b[1]), QAdd(a[2], b[2])>>
CSub(a, b) == <<QSub(a[1], b[1]), QSub(a[2], b[2])>>
CMul(a, b) == <<QSub(QMul(a[1], b[1]), QMul(a[2], b[2])),
                QAdd(QMul(a[1], b[2]), QMul(a[2], b[1]))>>
COne == <<QOne, QZero>>

\* complex128Slice and toComplex128, float64Slice and toFloat64.
complex128Slice(s) == [k \in 1..Len(s) |-> <<s[k], QZero>>]
float64Slice(s) == [k \in 1..Len(s) |-> s[k][1]]

\* A variant of expUnit that takes the root of the transform of length 2 for
\* every length.
expUnitOfTwo(n, dir) == <<QI(-1), QZero>>

\* cmplx.Exp(dir * 2 * Pi * i / n) for the lengths up to MaxFFT.
expUnit(n, dir) ==
  CASE n = 2 -> <<QI(-1), QZero>>
    [] n = 4 -> <<QZero, QI(dir)>>

\* w after k passes of the loop of a transform: wn to the power k.
RECURSIVE wAfter(_, _)
wAfter(wn, k) == IF k = 0 THEN COne ELSE CMul(wAfter(wn, k - 1), wn)

\* The recursion the two transforms share; dir is the sign of the exponent.
RECURSIVE radix2(_, _)
radix2(a, dir) ==
  LET n == Len(a)
      halfn == n \div 2
  IN  IF n = 1 THEN a
      ELSE LET ae == [i \in 1..halfn |-> a[2 * i - 1]]
               ao == [i \in 1..halfn |-> a[2 * i]]
               ye == radix2(ae, dir)
               yo == radix2(ao, dir)
               wn == expUnit(n, dir)
           IN  [k \in 1..n |->
                  IF k <= halfn
                  THEN CAdd(ye[k], CMul(wAfter(wn, k - 1), yo[k]))
                  ELSE CSub(ye[k - halfn], CMul(wAfter(wn, k - halfn - 1), yo[k - halfn]))]

fastFourierTransform(a) == radix2(a, 1)
inverseFastFourierTransform(a) == radix2(a, -1)

\* n | n>>1 | n>>2 | n>>4 | n>>8 | n>>16: every bit below the highest set bit
\* of n is set.
RECURSIVE smear(_)
smear(n) == IF n = 0 THEN 0 ELSE 2 * smear(n \div 2) + 1

nextClosestPowerOfTwo(n) == smear(n) + 1

\* RealPolynomial.Mul: h[i].Mul(h[j]) sets h[i] to the product.
RealMul(heap, i, j) ==
  LET lenRp1 == Len(heap[i])
      lenRp2 == Len(heap[j])
      padded == nextClosestPowerOfTwo(lenRp1 + lenRp2 - 1)
      coeffs1 == [k \in 1..padded |-> IF k <= lenRp1 THEN heap[i][k] ELSE QZero]
      coeffs2 == [k \in 1..padded |-> IF k <= lenRp2 THEN heap[j][k] ELSE QZero]
      fa == fastFourierTransform(complex128Slice(coeffs1))
      fb == fastFourierTransform(complex128Slice(coeffs2))
      fc == [k \in 1..padded |-> CMul(fa[k], fb[k])]
      inverse == float64Slice(inverseFastFourierTransform(fc))
      tmpCoeffs == [k \in 1..padded |-> QDiv(inverse[k], QI(padded))]
      cut == SubSeq(tmpCoeffs, 1, Degree(heap[i]) + Degree(heap[j]) + 1)
  IN  [heap EXCEPT ![i] = stripTailingZeroes(cut)]

\* isPOT and nextPOT: the least power of two that is at least n.
isPOT(n) == n >= 1 /\ smear(n) + 1 = 2 * n
RECURSIVE nextPOT(_)
nextPOT(n) ==
  IF isPOT(n) THEN n
  ELSE IF n <= 0 THEN 1
  ELSE nextPOT(n + 1)

\* fft.FFT and fft.IFFT of the library go-dsp on a slice whose length is a
\* power of two: the transform with exponent -1, and the inverse divided by
\* the length.
FFT(a) == radix2(a, -1)
IFFT(a) ==
  LET inverse == radix2(a, 1)
  IN  [k \in 1..Len(a) |-> <<QDiv(inverse[k][1], QI(Len(a))), QDiv(inverse[k][2], QI(Len(a)))>>]

\* Poly.MulFast.
MulFast(p, q) ==
  IF p.deg = 0 THEN MulScalar(q, p.coef[1])
  ELSE IF q.deg = 0 THEN MulScalar(p, q.coef[1])
  ELSE LET prodlen == p.deg + q.deg + 1
           potlen == nextPOT(prodlen)
           a == FFT(complex128Slice(expand(p.coef, potlen)))
           b == FFT(complex128Slice(expand(q.coef, potlen)))
           c == [k \in 1..potlen |-> CMul(a[k], b[k])]
       IN  newPolyNoReverse(SubSeq(float64Slice(IFFT(c)), 1, prodlen))

\* The products whose transform the model computes.
FitsFFT(n) == n <= MaxFFT

DoMulFast ==
  /\ KernelStep("Poly")
  /\ FitsFFT(nextPOT(x.deg + o.deg + 1))
  /\ x' = MulFast(x, o)
  /\ outcome' = "ok"
  /\ UNCHANGED <<y, o, h, rret>>

DoRealMul ==
  /\ KernelStep("Real")
  /\ \E i \in 1..2, j \in 1..2 :
       /\ FitsFFT(nextClosestPowerOfTwo(Len(h[i]) + Len(h[j]) - 1))
       /\ h' = RealMul(h, i, j)
  /\ outcome' = "ok"
  /\ UNCHANGED <<x, y, o, rret>>

\* A caller holding two polynomials multiplies them by the transform and
\* scales them.
NextMul ==
  \/ DoMulFast
  \/ DoMulScalar
  \/ DoRealMul
  \/ DoMulS

SpecMul == InitKernel /\ [][NextMul]_vars

\* C23: the product by the transform equals the product by convolution,
\* coefficient by coefficient, for the polynomials the caller holds, in both
\* orders and also for a constant or zero factor; and for nonzero factors its
\* degree is the sum of the degrees.
C23_FastProductIsNaiveProduct ==
  /\ api = "Poly" /\ FitsFFT(nextPOT(x.deg + o.deg + 1)) =>
       LET fast == MulFast(x, o)
       IN  /\ fast = Mul(x, o)
           /\ MulFast(o, x) = Mul(o, x)
           /\ ~IsZero(x) /\ ~IsZero(o) => fast.deg = x.deg + o.deg
  /\ api = "Real" =>
       \A i, j \in 1..2 :
         FitsFFT(nextClosestPowerOfTwo(Len(h[i]) + Len(h[j]) - 1)) =>
           LET fast == RealMul(h, i, j)
           IN  /\ fast = RealMulNaive(h, i, j)
               /\ ~allZero(h[i]) /\ ~allZero(h[j])
                    => Degree(fast[i]) = Degree(h[i]) + Degree(h[j])

\* Two linear polynomials have been multiplied by a transform of length 4.
C23_QuadraticProductByTransform ==
  \/ api = "Poly" /\ nops = 1 /\ x.deg = 2 /\ o.deg = 1 /\ x = MulFast(Div(x, o)[1], o)
  \/ api = "Real" /\ nops = 1 /\ Len(h[1]) = 3 /\ Len(h[2]) = 2
       /\ \E c \in CoefSlices : Len(c) = 2 /\ h[1] = RealMul(<<c, h[2]>>, 1, 2)[1]


(***************************************************************************)
(* Claims about the identifiers of the chain cache.                        *)
(***************************************************************************)
\* C24: the chain cacheSturmChain hands to the counter for the polynomial of
\* a query is the Sturm chain of that polynomial: an entry stored under its
\* identifier was built from a structurally equal polynomial.
C24_CachedChainIsChainOfQueried ==
  /\ cacheSturmChain(chainCache, sp) = new_sturmChain(sp)
  /\ \A e \in chainCache : e.key = id(sp) => e.chain[1] = sp


(***************************************************************************)
(* Claims about the termination of division and bisection.                 *)
(***************************************************************************)
\* C25: RealPolynomial.EuclideanDiv ends and returns a quotient and a
\* remainder for every dividend and every nonzero divisor, a nonzero constant
\* divisor included: no call the caller makes is left in its loop.
C25_EuclideanDivReturnsForNonzeroDivisor ==
  api = "Real" => outcome # "hang"

\* C26: the loop of solve_bisect ends for every isolating interval and every
\* precision SetBisectSearchPrecision accepts: no search is still in the loop,
\* its test true, after MaxBisect passes.
C26_BisectionEnds ==
  /\ outcome # "bisect_exhausted"
  /\ pc = "bisect" /\ passes = MaxBisect => ~QLt(bisectPrecision, QSub(right, left))


(***************************************************************************)
(* Claims about the additivity of the count.                               *)
(***************************************************************************)
\* C27: for every point m with sa <= m <= sb the counts of the roots of sp
\* within (sa, m] and within (m, sb] add up to the count within (sa, sb], for
\* the count that returns the difference of the sign changes as it is and for
\* the count that returns 0 for a negative difference.
C27_CountIsAdditive ==
  \A m \in CountEndVals :
    (QLe(sa, m) /\ QLe(m, sb)) =>
      LET chain == new_sturmChain(sp)
      IN  /\ count(chain, sa, m) + count(chain, m, sb) = count(chain, sa, sb)
          /\ clampedCount(chain, sa, m, epsilon) + clampedCount(chain, m, sb, epsilon)
               = clampedCount(chain, sa, sb, epsilon)


(***************************************************************************)
(* Two callers of one Solver: cacheSturmChain step by step.  A caller is   *)
(* at "range" in the loop over the keys, at "store" before the assignment  *)
(* cache[id] = new_sturmChain(p), at "return" before the read of cache[id]. *)
(***************************************************************************)
Callers == 1..2
RacePolys == {NewPoly(<<QOne, QZero>>), NewPolyFactored(QOne, <<QI(-1), QZero, QI(1)>>)}

raceFrame == <<api, x, y, o, h, rret, nops, globalVars, synced, inputVars, pc, cnt,
               stack, partition, roots, idx, bisectVars, newtonVars>>

\* A variant of the loop over the keys that finds no key.
cachedNever(cache, p) == FALSE

\* The loop over the keys of cacheSturmChain: id(p) is a key of the cache.
cached(cache, p) == \E e \in cache : e.key = id(p)

\* The map after cache[id(p)] = new_sturmChain(p).
assigned(cache, p) ==
  {e \in cache : e.key # id(p)} \cup {[key |-> id(p), chain |-> new_sturmChain(p)]}

\* cache[id(p)] when the key is present.
lookup(cache, p) == (CHOOSE e \in cache : e.key = id(p)).chain

\* Caller c is between the first and the last access of a call.
inside(c) == callers[c].pc \in {"range", "store", "return"}

\* One caller is about to write the map while another is inside.
Racing == \E c, d \in Callers : c # d /\ callers[c].pc = "store" /\ inside(d)

\* What the step of a caller leaves besides its own effect: an access that
\* overlaps a write of another caller is a data race, which the runtime may
\* end with a fatal error.
RaceStep(c) ==
  /\ outcome # "fatal"
  /\ outcome' \in (IF Racing THEN {outcome, "fatal"} ELSE {outcome})
  /\ UNCHANGED raceFrame

\* The caller calls a method of the Solver that asks for the chain of its
\* polynomial; callers that synchronise lock the mutex first.
Enter(c) ==
  /\ callers[c].pc = "idle"
  /\ synced => mutex = 0
  /\ mutex' = IF synced THEN c ELSE mutex
  /\ callers' = [callers EXCEPT ![c].pc = "range"]
  /\ chainCache' = chainCache
  /\ RaceStep(c)

\* The loop over the keys ends: with the cached chain, or without a match.
Range(c) ==
  /\ callers[c].pc = "range"
  /\ IF cached(chainCache, callers[c].p)
     THEN /\ callers' = [callers EXCEPT ![c].pc = "done",
                                        ![c].got = lookup(chainCache, callers[c].p)]
          /\ mutex' = 0
     ELSE /\ callers' = [callers EXCEPT ![c].pc = "store"]
          /\ mutex' = mutex
  /\ chainCache' = chainCache
  /\ RaceStep(c)

\* cache[id] = new_sturmChain(p).
Store(c) ==
  /\ callers[c].pc = "store"
  /\ chainCache' = assigned(chainCache, callers[c].p)
  /\ callers' = [callers EXCEPT ![c].pc = "return", ![c].built = TRUE]
  /\ mutex' = mutex
  /\ RaceStep(c)

\* return cache[id]; callers that synchronise unlock the mutex.
Return(c) ==
  /\ callers[c].pc = "return"
  /\ callers' = [callers EXCEPT ![c].pc = "done",
                                ![c].got = lookup(chainCache, callers[c].p)]
  /\ mutex' = 0
  /\ chainCache' = chainCache
  /\ RaceStep(c)

InitRace ==
  /\ KernelIdle
  /\ SolverIdle
  /\ outcome = "ok"
  /\ synced \in BOOLEAN
  /\ mutex = 0
  /\ callers \in [Callers -> {[pc |-> "idle", p |-> q, built |-> FALSE, got |-> <<>>]
                                : q \in RacePolys}]

NextRace == \E c \in Callers : Enter(c) \/ Range(c) \/ Store(c) \/ Return(c)

SpecRace == InitRace /\ [][NextRace]_vars

\* C28: cacheSturmChain takes no lock, so two callers of one Solver that do
\* not synchronise can both be inside it, one about to write the map (the
\* state C28_BothInsideOneWriting); when every call is guarded by one mutex
\* no two callers are ever inside at once, no access overlaps a write, and no
\* chain is built twice for one identifier.
C28_MutexSerialisesCacheAccess ==
  synced =>
    /\ ~Racing
    /\ outcome # "fatal"
    /\ \A c, d \in Callers :
         c # d =>
           /\ ~(inside(c) /\ inside(d))
           /\ id(callers[c].p) = id(callers[d].p) => ~(callers[c].built /\ callers[d].built)
    /\ \A c \in Callers : callers[c].pc = "done" => callers[c].got = new_sturmChain(callers[c].p)

\* Without the mutex: both callers are inside, for the same polynomial, one
\* before its write and the other having written.
C28_BothInsideOneWriting ==
  /\ ~synced
  /\ callers[1].p = callers[2].p
  /\ callers[1].pc = "store"
  /\ callers[2].pc = "return" /\ callers[2].built


(***************************************************************************)
(* The queries of the RealPolynomial API and the objects they are given.   *)
(***************************************************************************)
\* The caller's objects after h[i].FindIntersectionsWithin(a, b, h[j]) or
\* h[i].FindIntersectionWithin(a, b, h[j]): tmp := *rp is a copy of the
\* receiver's struct, and tmp.Sub(rp2) assigns new slices to tmp.coeffs and to
\* rp2.coeffs; the chain is then built for tmp from copies and new objects.
afterFindIntersectionsWithin(heap, i, j) ==
  [k \in 1..Len(heap) |-> IF k = j THEN RealSub(<<heap[i], heap[j]>>, 1, 2)[2] ELSE heap[k]]

\* FindIntersectionsWithin returns the error of FindRootsWithin, which is set
\* for the zero polynomial.
DoRealFindIntersectionsWithin ==
  /\ KernelStep("Real")
  /\ \E i \in 1..2, j \in 1..2 :
       /\ Usable(h[i]) /\ Usable(h[j])
       /\ h' = afterFindIntersectionsWithin(h, i, j)
       /\ outcome' = IF RealIsZero(SubCoeffs(h[i], h[j])) THEN "error" ELSE "ok"
  /\ UNCHANGED <<x, y, o, rret>>

\* A caller holding two objects scales them and asks for their intersections.
NextReadOnly ==
  \/ DoMulS
  \/ DoRealFindIntersectionsWithin

SpecReadOnly == InitKernel /\ [][NextReadOnly]_vars

\* C29: a query of the RealPolynomial API leaves the coefficient sequences of
\* its receiver and of its argument as they were: for any two objects the
\* caller holds, the objects after FindIntersectionsWithin are the objects
\* before it.
C29_QueriesLeaveOperandsUnchanged ==
  api = "Real" =>
    \A i, j \in 1..2 :
      (Usable(h[i]) /\ Usable(h[j])) => afterFindIntersectionsWithin(h, i, j) = h


(***************************************************************************)
(* The length of the transform.                                            *)
(***************************************************************************)
\* padLen of RealPolynomial.Mul, and of its older variant, which takes it from
\* the longer operand alone.
padLen(c1, c2) == nextClosestPowerOfTwo(Len(c1) + Len(c2) - 1)
padLenOld(c1, c2) ==
  IF Len(c1) > Len(c2) THEN nextClosestPowerOfTwo(Len(c1)) ELSE nextClosestPowerOfTwo(Len(c2))

\* The older RealPolynomial.Mul: the coefficients the inverse transform
\* returns are stripped, and not cut to the length of the product first.
RealMulOld(heap, i, j) ==
  LET n == padLenOld(heap[i], heap[j])
      coeffs1 == [k \in 1..n |-> IF k <= Len(heap[i]) THEN heap[i][k] ELSE QZero]
      coeffs2 == [k \in 1..n |-> IF k <= Len(heap[j]) THEN heap[j][k] ELSE QZero]
      fa == fastFourierTransform(complex128Slice(coeffs1))
      fb == fastFourierTransform(complex128Slice(coeffs2))
      fc == [k \in 1..n |-> CMul(fa[k], fb[k])]
      inverse == float64Slice(inverseFastFourierTransform(fc))
      tmpCoeffs == [k \in 1..n |-> QDiv(inverse[k], QI(n))]
  IN  [k \in 1..Len(heap) |-> IF k = i THEN stripTailingZeroes(tmpCoeffs) ELSE heap[k]]

DoRealMulOld ==
  /\ KernelStep("Real")
  /\ \E i \in 1..2, j \in 1..2 :
       /\ FitsFFT(padLenOld(h[i], h[j]))
       /\ h' = RealMulOld(h, i, j)
  /\ outcome' = "ok"
  /\ UNCHANGED <<x, y, o, rret>>

NextLength ==
  \/ DoRealMul
  \/ DoRealMulOld

SpecLength == InitKernel /\ [][NextLength]_vars

\* C30: the transform of a product has the length of the smallest power of
\* two that is at least deg(p) + deg(q) + 1, the number of coefficients of the
\* product, and is never shorter than that number.
C30_TransformLengthIsLeastPowerOfTwo ==
  api = "Real" =>
    \A i, j \in 1..2 :
      LET n == Degree(h[i]) + Degree(h[j]) + 1
      IN  /\ padLen(h[i], h[j]) = nextPOT(n)
          /\ padLenOld(h[i], h[j]) >= n

====
